---------------------------- MODULE Spec2Model ----------------------------
(***************************************************************************)
(* Model of the codemap indexer (codemap-indexer/analyze_folder_callsites  *)
(* .py): directory enumeration, per-file read / parse / extraction, the    *)
(* inverse index, the result document and the write of the output file.    *)
(*                                                                         *)
(* File and directory names are sequences of one-character strings so that *)
(* startswith / endswith are computed, not looked up.  A path is the       *)
(* sequence of its components.  A syntax tree is a table of nodes in which *)
(* every node lists its children; walk() computes the preorder.            *)
(***************************************************************************)
EXTENDS Integers, Sequences, FiniteSets, TLC

(***************************************************************************)
(* Bounds of the model.                                                     *)
(***************************************************************************)
\* number of indexer invocations on the same, unchanged tree
MaxRuns == 2
\* the interpreter's recursion limit (1000 by default), scaled to the depth
\* of the model's trees: walk() on a deeper tree raises RecursionError
RecursionLimit == 8
\* the largest number of flushes write_text may need for one document
MaxChunks == 2
\* commands read in one console session
MaxSteps == 2
\* view events the GUI handles in one run
MaxEvents == 4
\* length of a console session already under way
LongSession == 201

(***************************************************************************)
(* Names.                                                                   *)
(***************************************************************************)
N_git == << ".", "g", "i", "t" >>
N_build == << "b", "u", "i", "l", "d" >>
N_proj == << "p", "r", "o", "j" >>
N_sub == << "s", "u", "b" >>
N_a_c == << "a", ".", "c" >>
N_b_h == << "b", ".", "h" >>
N_c_c == << "c", ".", "c" >>
N_notes_txt == << "n", "o", "t", "e", "s", ".", "t", "x", "t" >>
N_out_json == << "_", "c", "a", "l", "l", "g", "r", "a", "p", "h", "_", "c", "a", "l", "l", "s", "i", "t", "e", "s", ".", "j", "s", "o", "n" >>

startswith(s, prefix) ==
  /\ Len(s) >= Len(prefix)
  /\ SubSeq(s, 1, Len(prefix)) = prefix

endswith(s, suffix) ==
  /\ Len(s) >= Len(suffix)
  /\ SubSeq(s, Len(s) - Len(suffix) + 1, Len(s)) = suffix

ignore_dirs ==
  LET N_svn == << ".", "s", "v", "n" >>
      N_hg == << ".", "h", "g" >>
      N_cmake_build_debug == << "c", "m", "a", "k", "e", "-", "b", "u", "i", "l", "d", "-", "d", "e", "b", "u", "g" >>
      N_cmake_build_release == << "c", "m", "a", "k", "e", "-", "b", "u", "i", "l", "d", "-", "r", "e", "l", "e", "a", "s", "e" >>
      N_vscode == << ".", "v", "s", "c", "o", "d", "e" >>
      N_idea == << ".", "i", "d", "e", "a" >>
      N_venv == << "v", "e", "n", "v" >>
      N_dot_venv == << ".", "v", "e", "n", "v" >>
      N_pycache == << "_", "_", "p", "y", "c", "a", "c", "h", "e", "_", "_" >>
      N_node_modules == << "n", "o", "d", "e", "_", "m", "o", "d", "u", "l", "e", "s" >>
  IN
  { N_git, N_svn, N_hg,
    N_build, N_cmake_build_debug, N_cmake_build_release,
    N_vscode, N_idea,
    N_venv, N_dot_venv, N_pycache,
    N_node_modules }

(***************************************************************************)
(* Syntax trees, as the external parser delivers them.  Node i of a tree   *)
(* has a type, the field name under which its parent holds it, the source  *)
(* text of its byte span, its start row and column and its end row (all    *)
(* 0-based), and its children.  Node 1 is the root.                        *)
(***************************************************************************)
Node(type, field, text, row, col, erow, kids) ==
  [type |-> type, field |-> field, text |-> text,
   row |-> row, col |-> col, erow |-> erow, kids |-> kids]

\* depth 6, 21 nodes
T_scenario ==
  << Node("translation_unit", "", "", 0, 0, 1, <<2, 8>>),
     Node("function_definition", "", "", 0, 0, 0, <<3, 4, 7>>),
     Node("primitive_type", "type", "void", 0, 0, 0, <<>>),
     Node("function_declarator", "declarator", "", 0, 5, 0, <<5, 6>>),
     Node("identifier", "declarator", "helper", 0, 5, 0, <<>>),
     Node("parameter_list", "parameters", "", 0, 0, 0, <<>>),
     Node("compound_statement", "body", "", 0, 11, 0, <<>>),
     Node("function_definition", "", "", 1, 0, 1, <<9, 10, 13>>),
     Node("primitive_type", "type", "void", 1, 0, 1, <<>>),
     Node("function_declarator", "declarator", "", 1, 5, 1, <<11, 12>>),
     Node("identifier", "declarator", "main", 1, 5, 1, <<>>),
     Node("parameter_list", "parameters", "", 1, 0, 1, <<>>),
     Node("compound_statement", "body", "", 1, 11, 1, <<14, 18>>),
     Node("expression_statement", "", "", 1, 13, 1, <<15>>),
     Node("call_expression", "", "", 1, 13, 1, <<16, 17>>),
     Node("identifier", "function", "helper", 1, 13, 1, <<>>),
     Node("argument_list", "arguments", "", 1, 13, 1, <<>>),
     Node("expression_statement", "", "", 1, 23, 1, <<19>>),
     Node("call_expression", "", "", 1, 23, 1, <<20, 21>>),
     Node("identifier", "function", "helper", 1, 23, 1, <<>>),
     Node("argument_list", "arguments", "", 1, 23, 1, <<>>) >>

\* depth 8, 16 nodes
T_multi ==
  << Node("translation_unit", "", "", 0, 0, 2, <<2, 13>>),
     Node("function_definition", "", "", 0, 0, 0, <<3, 5>>),
     Node("function_declarator", "declarator", "", 0, 4, 0, <<4>>),
     Node("identifier", "declarator", "helper", 0, 4, 0, <<>>),
     Node("compound_statement", "body", "", 0, 12, 0, <<6>>),
     Node("return_statement", "", "", 0, 14, 0, <<7>>),
     Node("call_expression", "", "", 0, 21, 0, <<8, 9>>),
     Node("identifier", "function", "g", 0, 21, 0, <<>>),
     Node("argument_list", "arguments", "", 0, 21, 0, <<10>>),
     Node("call_expression", "", "", 0, 23, 0, <<11, 12>>),
     Node("identifier", "function", "h", 0, 23, 0, <<>>),
     Node("argument_list", "arguments", "", 0, 23, 0, <<>>),
     Node("function_definition", "", "", 1, 0, 2, <<14, 16>>),
     Node("function_declarator", "declarator", "", 1, 4, 1, <<15>>),
     Node("identifier", "declarator", "helper", 1, 4, 1, <<>>),
     Node("compound_statement", "body", "", 2, 0, 2, <<>>) >>

\* depth 7, 28 nodes
T_unnamed ==
  << Node("translation_unit", "", "", 0, 0, 4, <<2, 10, 12>>),
     Node("function_definition", "", "", 0, 0, 0, <<3, 5>>),
     Node("function_declarator", "declarator", "", 0, 0, 0, <<4>>),
     Node("ERROR", "", "", 0, 0, 0, <<>>),
     Node("compound_statement", "body", "", 0, 12, 0, <<6>>),
     Node("expression_statement", "", "", 0, 14, 0, <<7>>),
     Node("call_expression", "", "", 0, 14, 0, <<8, 9>>),
     Node("identifier", "function", "k", 0, 14, 0, <<>>),
     Node("argument_list", "arguments", "", 0, 14, 0, <<>>),
     Node("function_definition", "", "", 1, 0, 1, <<11>>),
     Node("compound_statement", "body", "", 1, 5, 1, <<>>),
     Node("function_definition", "", "", 2, 0, 4, <<13, 15>>),
     Node("function_declarator", "declarator", "", 2, 5, 2, <<14>>),
     Node("identifier", "declarator", "rec", 2, 5, 2, <<>>),
     Node("compound_statement", "body", "", 2, 10, 4, <<16, 20, 23>>),
     Node("expression_statement", "", "", 2, 12, 2, <<17>>),
     Node("call_expression", "", "", 2, 12, 2, <<18, 19>>),
     Node("identifier", "function", "rec", 2, 12, 2, <<>>),
     Node("argument_list", "arguments", "", 2, 12, 2, <<>>),
     Node("expression_statement", "", "", 2, 19, 2, <<21>>),
     Node("call_expression", "", "", 2, 19, 2, <<22>>),
     Node("argument_list", "arguments", "", 2, 19, 2, <<>>),
     Node("expression_statement", "", "", 3, 2, 3, <<24>>),
     Node("call_expression", "", "", 3, 2, 3, <<25, 28>>),
     Node("field_expression", "function", "p->fn", 3, 2, 3, <<26, 27>>),
     Node("identifier", "", "p", 3, 2, 3, <<>>),
     Node("identifier", "", "fn", 3, 5, 3, <<>>),
     Node("argument_list", "arguments", "", 3, 2, 3, <<>>) >>

\* depth 8, 17 nodes
T_nested ==
  << Node("translation_unit", "", "", 0, 0, 3, <<2>>),
     Node("function_definition", "", "", 0, 0, 3, <<3, 5>>),
     Node("function_declarator", "declarator", "", 0, 5, 0, <<4>>),
     Node("identifier", "declarator", "outer", 0, 5, 0, <<>>),
     Node("compound_statement", "body", "", 0, 12, 3, <<6, 14>>),
     Node("function_definition", "", "", 1, 2, 1, <<7, 9>>),
     Node("function_declarator", "declarator", "", 1, 7, 1, <<8>>),
     Node("identifier", "declarator", "inner", 1, 7, 1, <<>>),
     Node("compound_statement", "body", "", 1, 14, 1, <<10>>),
     Node("expression_statement", "", "", 1, 16, 1, <<11>>),
     Node("call_expression", "", "", 1, 16, 1, <<12, 13>>),
     Node("identifier", "function", "k", 1, 16, 1, <<>>),
     Node("argument_list", "arguments", "", 1, 16, 1, <<>>),
     Node("expression_statement", "", "", 2, 2, 2, <<15>>),
     Node("call_expression", "", "", 2, 2, 2, <<16, 17>>),
     Node("identifier", "function", "inner", 2, 2, 2, <<>>),
     Node("argument_list", "arguments", "", 2, 2, 2, <<>>) >>

\* depth 11, 13 nodes
T_deep ==
  << Node("translation_unit", "", "", 0, 0, 0, <<2>>),
     Node("function_definition", "", "", 0, 0, 0, <<3, 5>>),
     Node("function_declarator", "declarator", "", 0, 4, 0, <<4>>),
     Node("identifier", "declarator", "deep", 0, 4, 0, <<>>),
     Node("compound_statement", "body", "", 0, 10, 0, <<6>>),
     Node("return_statement", "", "", 0, 12, 0, <<7>>),
     Node("parenthesized_expression", "", "", 0, 19, 0, <<8>>),
     Node("parenthesized_expression", "", "", 0, 20, 0, <<9>>),
     Node("parenthesized_expression", "", "", 0, 21, 0, <<10>>),
     Node("parenthesized_expression", "", "", 0, 22, 0, <<11>>),
     Node("parenthesized_expression", "", "", 0, 23, 0, <<12>>),
     Node("parenthesized_expression", "", "", 0, 24, 0, <<13>>),
     Node("identifier", "", "x", 0, 25, 0, <<>>) >>

TreeNames == {"T_scenario", "T_multi", "T_unnamed", "T_nested", "T_deep"}

TreeOf(name) ==
  CASE name = "T_scenario" -> T_scenario
    [] name = "T_multi"    -> T_multi
    [] name = "T_unnamed"  -> T_unnamed
    [] name = "T_nested"   -> T_nested
    [] name = "T_deep"     -> T_deep

\* Python's None, for a node and for a name
NoNode == 0
None == "None"

\* node.child_by_field_name(field)
child_by_field_name(tree, n, field) ==
  LET hits == { i \in 1..Len(tree[n].kids) : tree[tree[n].kids[i]].field = field }
  IN  IF hits = {} THEN NoNode
      ELSE tree[n].kids[CHOOSE i \in hits : \A j \in hits : i <= j]

RECURSIVE walk(_, _)
RECURSIVE walkAll(_, _)
\* walk(node): the node, then walk(child) for every child in order
walk(tree, n) == <<n>> \o walkAll(tree, tree[n].kids)

walkAll(tree, children) ==
  IF children = <<>> THEN <<>>
  ELSE walk(tree, Head(children)) \o walkAll(tree, Tail(children))

RECURSIVE Depth(_, _)
\* number of nested walk() generators needed to reach the deepest node
Depth(tree, n) ==
  LET ks == { tree[n].kids[i] : i \in 1..Len(tree[n].kids) }
      ds == { Depth(tree, k) : k \in ks }
  IN  IF ks = {} THEN 1 ELSE 1 + CHOOSE d \in ds : \A e \in ds : e <= d

\* walk() is a recursive generator: it raises RecursionError on a tree
\* deeper than the recursion limit
WalkRaises(tree) == Depth(tree, 1) > RecursionLimit

find_identifier_in_subtree(tree, node) ==
  LET ns   == walk(tree, node)
      hits == { i \in 1..Len(ns) : tree[ns[i]].type = "identifier" }
  IN  IF hits = {} THEN None
      ELSE tree[ns[CHOOSE i \in hits : \A j \in hits : i <= j]].text

\* variant: a definition without a name is filed under a placeholder
get_function_name_placeholder(tree, fn_node) ==
  LET decl == child_by_field_name(tree, fn_node, "declarator")
  IN  IF decl = NoNode THEN "<anonymous>"
      ELSE LET name == find_identifier_in_subtree(tree, decl)
           IN  IF name = None \/ name = "" THEN "<anonymous>" ELSE name

get_function_name(tree, fn_node) ==
  LET decl == child_by_field_name(tree, fn_node, "declarator")
  IN  IF decl = NoNode THEN "<unknown>"
      ELSE LET name == find_identifier_in_subtree(tree, decl)
           IN  IF name = None \/ name = "" THEN "<unknown>" ELSE name


(***************************************************************************)
(* defaultdict(list): the keys in insertion order and the list of each key. *)
(***************************************************************************)
EmptyDict == [keys |-> <<>>, at |-> [k \in {} |-> <<>>]]

\* variant: the list of a key is replaced instead of extended
DictAppend_overwrite(d, k, v) ==
  IF k \in DOMAIN d.at
  THEN [d EXCEPT !.at[k] = <<v>>]
  ELSE [keys |-> Append(d.keys, k), at |-> (k :> <<v>>) @@ d.at]

\* d[k].append(v); a missing key is created by the access
DictAppend(d, k, v) ==
  IF k \in DOMAIN d.at
  THEN [d EXCEPT !.at[k] = Append(@, v)]
  ELSE [keys |-> Append(d.keys, k), at |-> (k :> <<v>>) @@ d.at]

\* sum(len(v) for v in d.values())
RECURSIVE SumLen(_, _)
SumLen(d, ks) ==
  IF ks = <<>> THEN 0 ELSE Len(d.at[Head(ks)]) + SumLen(d, Tail(ks))

(***************************************************************************)
(* Extraction (analyze_folder, the body of the per-file loop).  acc holds  *)
(* the three accumulators functions, calls_map and call_sites.             *)
(***************************************************************************)
RECURSIVE ExtractCalls_unique(_, _, _, _, _)
\* variant: calls keeps every callee once (a set), call_sites keeps every site
ExtractCalls_unique(acc, path, tree, fn_name, subs) ==
  IF subs = <<>> THEN acc
  ELSE LET sub == Head(subs)
           fn  == child_by_field_name(tree, sub, "function")
       IN  IF tree[sub].type # "call_expression" \/ fn = NoNode
           THEN ExtractCalls_unique(acc, path, tree, fn_name, Tail(subs))
           ELSE LET callee == tree[fn].text
                    site   == [callee |-> callee, file |-> path,
                               line |-> tree[fn].row + 1, col |-> tree[fn].col + 1]
                    known  == /\ fn_name \in DOMAIN acc.calls_map.at
                              /\ \E i \in 1..Len(acc.calls_map.at[fn_name]) :
                                   acc.calls_map.at[fn_name][i] = callee
                    acc2   == [acc EXCEPT
                                 !.calls_map  = IF known THEN @ ELSE DictAppend(@, fn_name, callee),
                                 !.call_sites = DictAppend(@, fn_name, site)]
                IN  ExtractCalls_unique(acc2, path, tree, fn_name, Tail(subs))

RECURSIVE ExtractCalls_toplevel(_, _, _, _, _)
\* variant: the search does not go below a call expression it has recorded
ExtractCalls_toplevel(acc, path, tree, fn_name, subs) ==
  IF subs = <<>> THEN acc
  ELSE LET sub == Head(subs)
           fn  == child_by_field_name(tree, sub, "function")
       IN  IF tree[sub].type # "call_expression" \/ fn = NoNode
           THEN ExtractCalls_toplevel(acc, path, tree, fn_name, Tail(subs))
           ELSE LET callee == tree[fn].text
                    site   == [callee |-> callee, file |-> path,
                               line |-> tree[fn].row + 1, col |-> tree[fn].col + 1]
                    acc2   == [acc EXCEPT
                                 !.calls_map  = DictAppend(@, fn_name, callee),
                                 !.call_sites = DictAppend(@, fn_name, site)]
                IN  ExtractCalls_toplevel(acc2, path, tree, fn_name,
                                          SubSeq(subs, Len(walk(tree, sub)) + 1, Len(subs)))

RECURSIVE ExtractCalls(_, _, _, _, _)
\* for sub in walk(n): record every call expression that has a callee
ExtractCalls(acc, path, tree, fn_name, subs) ==
  IF subs = <<>> THEN acc
  ELSE LET sub == Head(subs)
           fn  == child_by_field_name(tree, sub, "function")
       IN  IF tree[sub].type # "call_expression" \/ fn = NoNode
           THEN ExtractCalls(acc, path, tree, fn_name, Tail(subs))
           ELSE LET callee == tree[fn].text
                    site   == [callee |-> callee, file |-> path,
                               line |-> tree[fn].row + 1, col |-> tree[fn].col + 1]
                    acc2   == [acc EXCEPT
                                 !.calls_map  = DictAppend(@, fn_name, callee),
                                 !.call_sites = DictAppend(@, fn_name, site)]
                IN  ExtractCalls(acc2, path, tree, fn_name, Tail(subs))

\* variant: the tree's 0-based rows are stored as they are
ExtractFunction_rows(acc, path, tree, n, fn_name) ==
  LET def  == [file |-> path, start_line |-> tree[n].row,
               end_line |-> tree[n].erow]
      acc1 == [acc EXCEPT !.functions = DictAppend(@, fn_name, def)]
  IN  ExtractCalls(acc1, path, tree, fn_name, walk(tree, n))

\* variant: only the first definition of a name is kept
ExtractFunction_firstwins(acc, path, tree, n, fn_name) ==
  LET def  == [file |-> path, start_line |-> tree[n].row + 1,
               end_line |-> tree[n].erow + 1]
      acc1 == IF fn_name \in DOMAIN acc.functions.at THEN acc
              ELSE [acc EXCEPT !.functions = DictAppend(@, fn_name, def)]
  IN  ExtractCalls(acc1, path, tree, fn_name, walk(tree, n))

\* variant: the definition also creates an empty entry for its calls
ExtractFunction_touch(acc, path, tree, n, fn_name) ==
  LET def  == [file |-> path, start_line |-> tree[n].row + 1,
               end_line |-> tree[n].erow + 1]
      acc1 == [acc EXCEPT
                 !.functions = DictAppend(@, fn_name, def),
                 !.calls_map = IF fn_name \in DOMAIN @.at THEN @
                               ELSE [keys |-> Append(@.keys, fn_name),
                                     at |-> (fn_name :> <<>>) @@ @.at]]
  IN  ExtractCalls(acc1, path, tree, fn_name, walk(tree, n))

\* functions[fn_name].append({...}), then the calls inside the definition
ExtractFunction(acc, path, tree, n, fn_name) ==
  LET def  == [file |-> path, start_line |-> tree[n].row + 1,
               end_line |-> tree[n].erow + 1]
      acc1 == [acc EXCEPT !.functions = DictAppend(@, fn_name, def)]
  IN  ExtractCalls(acc1, path, tree, fn_name, walk(tree, n))

RECURSIVE ExtractDefs(_, _, _, _)
\* for n in walk(root): every function_definition that has a name
ExtractDefs(acc, path, tree, ns) ==
  IF ns = <<>> THEN acc
  ELSE LET n == Head(ns)
       IN  IF tree[n].type # "function_definition"
           THEN ExtractDefs(acc, path, tree, Tail(ns))
           ELSE LET fn_name == get_function_name(tree, n)
                IN  IF fn_name = "<unknown>"
                    THEN ExtractDefs(acc, path, tree, Tail(ns))
                    ELSE ExtractDefs(ExtractFunction(acc, path, tree, n, fn_name),
                                     path, tree, Tail(ns))

(***************************************************************************)
(* The inverse index (analyze_folder, after the loop).                      *)
(***************************************************************************)
RECURSIVE InvertSitesOf_dedup(_, _, _)
\* variant: a caller is listed once per callee, however often it calls it
InvertSitesOf_dedup(cbs, caller, sites) ==
  IF sites = <<>> THEN cbs
  ELSE LET s == Head(sites)
           e == [caller |-> caller, file |-> s.file, line |-> s.line, col |-> s.col]
           seen == /\ s.callee \in DOMAIN cbs.at
                   /\ \E i \in 1..Len(cbs.at[s.callee]) : cbs.at[s.callee][i].caller = caller
       IN  IF seen THEN InvertSitesOf_dedup(cbs, caller, Tail(sites))
           ELSE InvertSitesOf_dedup(DictAppend(cbs, s.callee, e), caller, Tail(sites))

RECURSIVE InvertSitesOf(_, _, _)
\* for s in sites: called_by_sites[s["callee"]].append({...})
InvertSitesOf(cbs, caller, sites) ==
  IF sites = <<>> THEN cbs
  ELSE LET s == Head(sites)
           e == [caller |-> caller, file |-> s.file, line |-> s.line, col |-> s.col]
       IN  InvertSitesOf(DictAppend(cbs, s.callee, e), caller, Tail(sites))

RECURSIVE InvertCallers_reversed(_, _, _)
\* variant: the callers are taken from the last inserted to the first
InvertCallers_reversed(cbs, cs, callers) ==
  IF callers = <<>> THEN cbs
  ELSE LET last == callers[Len(callers)]
       IN  InvertCallers_reversed(InvertSitesOf(cbs, last, cs.at[last]),
                                  cs, SubSeq(callers, 1, Len(callers) - 1))

RECURSIVE InvertCallers(_, _, _)
\* for caller, sites in call_sites.items()
InvertCallers(cbs, cs, callers) ==
  IF callers = <<>> THEN cbs
  ELSE InvertCallers(InvertSitesOf(cbs, Head(callers), cs.at[Head(callers)]),
                     cs, Tail(callers))

Invert(cs) == InvertCallers(EmptyDict, cs, cs.keys)

\* variant: num_functions counts the names, not the definitions
MakeResult_names(folder, fns, cm, cs, cbs, errs) ==
  [root            |-> folder,
   functions       |-> fns,
   calls           |-> cm,
   call_sites      |-> cs,
   called_by_sites |-> cbs,
   stats           |-> [num_functions             |-> Len(fns.keys),
                        num_unique_function_names |-> Len(fns.keys),
                        num_callers               |-> Len(cm.keys),
                        num_call_sites            |-> SumLen(cs, cs.keys),
                        num_files_with_errors     |-> Len(errs)],
   errors          |-> errs]

\* the result dictionary
MakeResult(folder, fns, cm, cs, cbs, errs) ==
  [root            |-> folder,
   functions       |-> fns,
   calls           |-> cm,
   call_sites      |-> cs,
   called_by_sites |-> cbs,
   stats           |-> [num_functions             |-> SumLen(fns, fns.keys),
                        num_unique_function_names |-> Len(fns.keys),
                        num_callers               |-> Len(cm.keys),
                        num_call_sites            |-> SumLen(cs, cs.keys),
                        num_files_with_errors     |-> Len(errs)],
   errors          |-> errs]

(***************************************************************************)
(* The file system.  dirs maps a directory path to its listing (in the     *)
(* order os.walk delivers it), files maps a file path to what reading and  *)
(* parsing it gives.                                                        *)
(***************************************************************************)
Content(readable, parses, tree) ==
  [readable |-> readable, parses |-> parses, tree |-> tree]

Absent == [readable |-> FALSE, parses |-> FALSE, tree |-> "absent"]
Unreadable == Content(FALSE, FALSE, "T_scenario")
Unparseable == Content(TRUE, FALSE, "T_scenario")

Listing(dirnames, filenames) == [dirnames |-> dirnames, filenames |-> filenames]

\* root/{a.c, b.h, notes.txt, .git/d.c, sub/{c.c, .cache/e.c}, build/deep/f.h}
MkFS(root, ca, cb, cc) ==
  LET N_cache == << ".", "c", "a", "c", "h", "e" >>
      N_deep == << "d", "e", "e", "p" >>
      N_d_c == << "d", ".", "c" >>
      N_e_c == << "e", ".", "c" >>
      N_f_h == << "f", ".", "h" >>
      Present(name, c) == IF c = Absent THEN <<>> ELSE <<name>>
  IN
  [kind  |-> "dir",
   root  |-> root,
   dirs  |->   (root :> Listing(<<N_git, N_sub, N_build>>,
                                Present(N_a_c, ca) \o Present(N_b_h, cb) \o <<N_notes_txt>>))
            @@ (Append(root, N_git) :> Listing(<<>>, <<N_d_c>>))
            @@ (Append(root, N_sub) :> Listing(<<N_cache>>, Present(N_c_c, cc)))
            @@ (root \o <<N_sub, N_cache>> :> Listing(<<>>, <<N_e_c>>))
            @@ (Append(root, N_build) :> Listing(<<N_deep>>, <<>>))
            @@ (root \o <<N_build, N_deep>> :> Listing(<<>>, <<N_f_h>>)),
   files |->   (Append(root, N_a_c) :> ca)
            @@ (Append(root, N_b_h) :> cb)
            @@ (Append(root, N_notes_txt) :> Content(TRUE, TRUE, "T_scenario"))
            @@ (root \o <<N_git, N_d_c>> :> Content(TRUE, TRUE, "T_scenario"))
            @@ (root \o <<N_sub, N_c_c>> :> cc)
            @@ (root \o <<N_sub, N_cache, N_e_c>> :> Content(TRUE, TRUE, "T_multi"))
            @@ (root \o <<N_build, N_deep, N_f_h>> :> Unparseable)]

\* a root path that is missing, or names a regular file
NoDirFS(root, kind) ==
  [kind |-> kind, root |-> root,
   dirs |-> [p \in {} |-> Listing(<<>>, <<>>)],
   files |-> [p \in {} |-> Absent]]

RECURSIVE iter_source_files_hidden(_, _)
RECURSIVE iter_subdirs_hidden(_, _, _)
\* variant: only the listed names are pruned, hidden directories are walked
iter_source_files_hidden(f, dirpath) ==
  LET dirnames  == SelectSeq(f.dirs[dirpath].dirnames, LAMBDA d : d \notin ignore_dirs)
      filenames == SelectSeq(f.dirs[dirpath].filenames,
                     LAMBDA fn : endswith(fn, <<".", "c">>) \/ endswith(fn, <<".", "h">>))
  IN  [i \in 1..Len(filenames) |-> Append(dirpath, filenames[i])]
        \o iter_subdirs_hidden(f, dirpath, dirnames)

iter_subdirs_hidden(f, dirpath, dirnames) ==
  IF dirnames = <<>> THEN <<>>
  ELSE iter_source_files_hidden(f, Append(dirpath, Head(dirnames)))
         \o iter_subdirs_hidden(f, dirpath, Tail(dirnames))

RECURSIVE iter_source_files(_, _)
RECURSIVE iter_subdirs(_, _, _)
\* os.walk(root), top-down: the candidate files of this directory, then the
\* directories that survive the pruning of dirnames, in listing order
iter_source_files(f, dirpath) ==
  LET dirnames  == SelectSeq(f.dirs[dirpath].dirnames,
                     LAMBDA d : d \notin ignore_dirs /\ ~startswith(d, <<".">>))
      filenames == SelectSeq(f.dirs[dirpath].filenames,
                     LAMBDA fn : endswith(fn, <<".", "c">>) \/ endswith(fn, <<".", "h">>))
  IN  [i \in 1..Len(filenames) |-> Append(dirpath, filenames[i])]
        \o iter_subdirs(f, dirpath, dirnames)

iter_subdirs(f, dirpath, dirnames) ==
  IF dirnames = <<>> THEN <<>>
  ELSE iter_source_files(f, Append(dirpath, Head(dirnames)))
         \o iter_subdirs(f, dirpath, Tail(dirnames))

(***************************************************************************)
(* State.                                                                   *)
(***************************************************************************)
VARIABLES
  argv,             \* sys.argv[1:]: the folder and, optionally, the output path
  fs,               \* the source tree (unchanged by the indexer)
  outFile,          \* what the output path holds on disk
  outBefore,        \* what the output path held when the current run started
  observed,         \* what a concurrent reader of the output path saw
  pc,               \* position of the indexer process
  exitCode,         \* its exit status, NoExit while it runs
  run,              \* number of the current invocation
  folder, out_path, \* main's locals
  todo,             \* the paths iter_source_files has still to yield
  path, code, tree, \* the loop's current file, its bytes, its syntax tree
  reads,            \* the paths read_bytes was called on, in order
  functions, calls_map, call_sites, file_errors, called_by_sites,
  result,           \* analyze_folder's return value
  prevResult,       \* the result of the previous invocation
  nav_pc,           \* position of the console navigator process
  data,             \* Navigator.data: the document it loaded
  history, future,  \* Navigator.history, Navigator.future
  bookmarks,        \* Navigator.bookmarks
  current,          \* Navigator.current
  session,          \* what session.json holds on disk
  nav_out,          \* the last Navigator call: its argument, message, return value
  nav_steps,        \* number of views shown and bookmarks set so far
  gui_pc,           \* position of the GUI backend
  _files, _outline, _callers, _callees, _callsites,
  _call_sites_out, _call_sites_in,   \* the WorkspaceBackend's fields
  gui_out,          \* the last WorkspaceBackend call and its return value
  _project,         \* WorkspaceBackend._project
  index_callsites,  \* what <root>/.codemap/_callgraph_callsites.json holds on disk
  script,           \* whether the indexer script is where open_project looks for it
  current_symbol, back_stack, forward_stack,   \* the presenter's NavigationState
  _current_file, _full_outline,                \* the presenter's other fields
  view,             \* what the main window shows
  gui_event,        \* the last view event handled, and the exception it ended with
  gui_steps         \* number of view events handled so far

navigator == <<nav_pc, data, history, future, bookmarks, current, session,
               nav_out, nav_steps>>

backend == <<gui_pc, _files, _outline, _callers, _callees, _callsites,
             _call_sites_out, _call_sites_in, gui_out>>

presenter == <<current_symbol, back_stack, forward_stack, _current_file,
               _full_outline, view, gui_event, gui_steps>>

consumers == <<navigator, backend, _project, index_callsites, script, presenter>>

indexer == <<argv, fs, outFile, outBefore, observed, pc, exitCode, run, folder,
             out_path, todo, path, code, tree, reads, functions, calls_map,
             call_sites, file_errors, called_by_sites, result, prevResult>>

vars == <<indexer, consumers>>

locals == <<folder, out_path, todo, path, code, tree, reads, functions,
            calls_map, call_sites, file_errors, called_by_sites, result>>

accs == <<functions, calls_map, call_sites, file_errors, called_by_sites>>

NoExit == -1
\* status of a process ended by a signal (128 + SIGKILL)
Killed == 137

NoDoc == [root |-> <<>>]

\* a file on disk: the document being stored and how many of its MaxChunks
\* chunks have reached the disk
OnDisk(doc, upto) == [exists |-> TRUE, doc |-> doc, upto |-> upto]
NoFile == [exists |-> FALSE, doc |-> NoDoc, upto |-> 0]
NotRead == [exists |-> FALSE, doc |-> NoDoc, upto |-> -1]

\* Python's None where a view is expected
NoView == [kind |-> "None"]
NoSession == [exists |-> FALSE]
NoCall == [call |-> "", arg |-> "", printed |-> "", ret |-> <<>>]

\* no console navigator is running
NavigatorOff ==
  /\ nav_pc = "off" /\ data = NoDoc
  /\ history = <<>> /\ future = <<>> /\ bookmarks = <<>> /\ current = NoView
  /\ session = NoSession /\ nav_out = NoCall /\ nav_steps = 0

NoMap == [k \in {} |-> <<>>]

\* WorkspaceBackend.__init__
BackendOff ==
  /\ gui_pc = "off"
  /\ _files = <<>> /\ _outline = NoMap /\ _callers = NoMap /\ _callees = NoMap
  /\ _callsites = NoMap /\ _call_sites_out = NoMap /\ _call_sites_in = NoMap
  /\ gui_out = NoCall

\* Python's None for a symbol, for a file name and for the project
NoSymbol == "<None>"
NoFilename == << <<>> >>
NoProject == [root_dir |-> <<>>, workspace_dir |-> <<>>, index_json_path |-> <<>>]

\* the constellation without a node
NoGraph == [center |-> NoSymbol, callers |-> <<>>, callees |-> <<>>]

\* no GUI is running: WorkspaceBackend.__init__, CodeMapPresenter.__init__ and
\* MainWindow.__init__ (empty lists, an empty search box, the message Ready);
\* nothing was opened, the indexer script is in place
GuiOff ==
  /\ _project = NoProject /\ index_callsites = NoFile /\ script = TRUE
  /\ current_symbol = NoSymbol /\ back_stack = <<>> /\ forward_stack = <<>>
  /\ _current_file = NoFilename /\ _full_outline = <<>>
  /\ view = [files |-> <<>>, outline |-> <<>>, callers |-> <<>>, callees |-> <<>>,
             callsites |-> <<>>, graph |-> NoGraph, search |-> "",
             status |-> [msg |-> "Ready", file |-> <<>>, index |-> <<>>, symbol |-> ""]]
  /\ gui_event = [handler |-> "", arg |-> "", raised |-> ""]
  /\ gui_steps = 0

LocalsInit ==
  /\ folder = <<>> /\ out_path = <<>>
  /\ todo = <<>> /\ path = <<>> /\ code = "" /\ tree = ""
  /\ reads = <<>>
  /\ functions = EmptyDict /\ calls_map = EmptyDict /\ call_sites = EmptyDict
  /\ file_errors = <<>> /\ called_by_sites = EmptyDict
  /\ result = NoDoc

\* the invocations: a root and the command line naming it (the second root's
\* own name is in ignore_dirs); what the three source files may hold; a stale
\* document left by an earlier indexing of another state of the tree
Init ==
  LET N_idx_json  == << "i", "n", "d", "e", "x", ".", "j", "s", "o", "n" >>
      Invocations == { [root |-> <<N_proj>>, argv |-> << <<N_proj>> >>],
                       [root |-> <<N_build>>, argv |-> << <<N_build>>, <<N_idx_json>> >>] }
      ContentsA   == { Content(TRUE, TRUE, t) : t \in TreeNames } \cup {Unreadable, Unparseable}
      ContentsB   == ContentsA \cup {Absent}
      ContentsC   == {Absent, Content(TRUE, TRUE, "T_multi"), Unreadable, Unparseable}
      StaleDoc    == [root |-> <<N_proj>>]
  IN
  /\ \/ \E inv \in Invocations, ca \in ContentsA, cb \in ContentsB, cc \in ContentsC :
          /\ fs = MkFS(inv.root, ca, cb, cc)
          /\ argv = inv.argv
     \/ \E inv \in Invocations, k \in {"missing", "file"} :
          /\ fs = NoDirFS(inv.root, k)
          /\ argv = inv.argv
     \/ /\ fs = NoDirFS(<<N_proj>>, "missing")
        /\ argv = <<>>
  /\ outFile \in { NoFile, OnDisk(StaleDoc, MaxChunks) }
  /\ outBefore = outFile
  /\ observed = NotRead
  /\ pc = "main" /\ exitCode = NoExit /\ run = 1
  /\ prevResult = NoDoc
  /\ LocalsInit
  /\ NavigatorOff /\ BackendOff /\ GuiOff

(***************************************************************************)
(* main                                                                     *)
(***************************************************************************)
Exit(status) == pc' = "exited" /\ exitCode' = status

\* len(sys.argv) < 2: usage, SystemExit(1)
MainUsage ==
  /\ pc = "main"
  /\ Len(argv) < 1
  /\ Exit(1)
  /\ UNCHANGED <<consumers, argv, fs, outFile, outBefore, observed, run, locals, prevResult>>

\* variant: the bad root is reported but the process ends normally
MainBadRoot_warn ==
  /\ pc = "main"
  /\ Len(argv) >= 1
  /\ fs.kind # "dir" \/ fs.root # argv[1]
  /\ folder' = argv[1]
  /\ Exit(0)
  /\ UNCHANGED <<consumers, argv, fs, outFile, outBefore, observed, run, out_path, todo, path,
                 code, tree, reads, accs, result, prevResult>>

\* not folder.exists() or not folder.is_dir(): SystemExit("Folder not found")
MainBadRoot ==
  /\ pc = "main"
  /\ Len(argv) >= 1
  /\ fs.kind # "dir" \/ fs.root # argv[1]
  /\ folder' = argv[1]
  /\ Exit(1)
  /\ UNCHANGED <<consumers, argv, fs, outFile, outBefore, observed, run, out_path, todo, path,
                 code, tree, reads, accs, result, prevResult>>

\* the root is a directory: out_path is chosen and analyze_folder is called
MainOk ==
  /\ pc = "main"
  /\ Len(argv) >= 1
  /\ fs.kind = "dir" /\ fs.root = argv[1]
  /\ folder' = argv[1]
  /\ out_path' = IF Len(argv) >= 2 THEN argv[2]
                 ELSE Append(argv[1], N_out_json)
  /\ pc' = "analyze"
  /\ UNCHANGED <<consumers, argv, fs, outFile, outBefore, observed, exitCode, run, todo, path,
                 code, tree, reads, accs, result, prevResult>>

(***************************************************************************)
(* analyze_folder                                                           *)
(***************************************************************************)
\* variant: the accumulators start from the maps of the previous document
AnalyzeBegin_incremental ==
  /\ pc = "analyze"
  /\ functions' = IF prevResult = NoDoc THEN EmptyDict ELSE prevResult.functions
  /\ calls_map' = IF prevResult = NoDoc THEN EmptyDict ELSE prevResult.calls
  /\ call_sites' = IF prevResult = NoDoc THEN EmptyDict ELSE prevResult.call_sites
  /\ file_errors' = <<>>
  /\ todo' = iter_source_files(fs, folder)
  /\ pc' = "loop"
  /\ UNCHANGED <<consumers, argv, fs, outFile, outBefore, observed, exitCode, run, folder,
                 out_path, path, code, tree, reads, called_by_sites, result,
                 prevResult>>

\* fresh accumulators; the loop's iterator is created
AnalyzeBegin ==
  /\ pc = "analyze"
  /\ functions' = EmptyDict
  /\ calls_map' = EmptyDict
  /\ call_sites' = EmptyDict
  /\ file_errors' = <<>>
  /\ todo' = iter_source_files(fs, folder)
  /\ pc' = "loop"
  /\ UNCHANGED <<consumers, argv, fs, outFile, outBefore, observed, exitCode, run, folder,
                 out_path, path, code, tree, reads, called_by_sites, result,
                 prevResult>>

\* the next path is yielded and path.read_bytes() succeeds
ReadOk ==
  /\ pc = "loop" /\ todo # <<>>
  /\ fs.files[Head(todo)].readable
  /\ path' = Head(todo) /\ todo' = Tail(todo)
  /\ reads' = Append(reads, Head(todo))
  /\ code' = fs.files[Head(todo)].tree
  /\ pc' = "parse"
  /\ UNCHANGED <<consumers, argv, fs, outFile, outBefore, observed, exitCode, run, folder,
                 out_path, tree, accs, result, prevResult>>

\* path.read_bytes() raises: one error entry, continue
ReadFail ==
  /\ pc = "loop" /\ todo # <<>>
  /\ ~fs.files[Head(todo)].readable
  /\ path' = Head(todo) /\ todo' = Tail(todo)
  /\ reads' = Append(reads, Head(todo))
  /\ file_errors' = Append(file_errors, [file |-> Head(todo), error |-> "read failed"])
  /\ UNCHANGED <<consumers, argv, fs, outFile, outBefore, observed, pc, exitCode, run, folder,
                 out_path, code, tree, functions, calls_map, call_sites,
                 called_by_sites, result, prevResult>>

\* parser.parse(code) succeeds
ParseOk ==
  /\ pc = "parse"
  /\ fs.files[path].parses
  /\ tree' = code
  /\ pc' = "extract"
  /\ UNCHANGED <<consumers, argv, fs, outFile, outBefore, observed, exitCode, run, folder,
                 out_path, todo, path, code, reads, accs, result, prevResult>>

\* variant: the error is recorded but the loop body goes on to the extraction
ParseFail_fallthrough ==
  /\ pc = "parse"
  /\ ~fs.files[path].parses
  /\ file_errors' = Append(file_errors, [file |-> path, error |-> "parse failed"])
  /\ tree' = code
  /\ pc' = "extract"
  /\ UNCHANGED <<consumers, argv, fs, outFile, outBefore, observed, exitCode, run, folder,
                 out_path, todo, path, code, reads, functions, calls_map,
                 call_sites, called_by_sites, result, prevResult>>

\* parser.parse(code) raises: one error entry, continue
ParseFail ==
  /\ pc = "parse"
  /\ ~fs.files[path].parses
  /\ file_errors' = Append(file_errors, [file |-> path, error |-> "parse failed"])
  /\ pc' = "loop"
  /\ UNCHANGED <<consumers, argv, fs, outFile, outBefore, observed, exitCode, run, folder,
                 out_path, todo, path, code, tree, reads, functions, calls_map,
                 call_sites, called_by_sites, result, prevResult>>

\* variant: the document so far is saved after every file
ExtractOk_checkpoint ==
  /\ pc = "extract"
  /\ ~WalkRaises(TreeOf(tree))
  /\ LET acc == ExtractDefs([functions |-> functions, calls_map |-> calls_map,
                             call_sites |-> call_sites],
                            path, TreeOf(tree), walk(TreeOf(tree), 1))
     IN  /\ functions' = acc.functions
         /\ calls_map' = acc.calls_map
         /\ call_sites' = acc.call_sites
         /\ outFile' = OnDisk(MakeResult(folder, acc.functions, acc.calls_map,
                                         acc.call_sites, Invert(acc.call_sites),
                                         file_errors), MaxChunks)
  /\ pc' = "loop"
  /\ UNCHANGED <<consumers, argv, fs, outBefore, observed, exitCode, run, folder,
                 out_path, todo, path, code, tree, reads, file_errors,
                 called_by_sites, result, prevResult>>

\* for n in walk(root): ... runs to the end of the tree
ExtractOk ==
  /\ pc = "extract"
  /\ ~WalkRaises(TreeOf(tree))
  /\ LET acc == ExtractDefs([functions |-> functions, calls_map |-> calls_map,
                             call_sites |-> call_sites],
                            path, TreeOf(tree), walk(TreeOf(tree), 1))
     IN  /\ functions' = acc.functions
         /\ calls_map' = acc.calls_map
         /\ call_sites' = acc.call_sites
  /\ pc' = "loop"
  /\ UNCHANGED <<consumers, argv, fs, outFile, outBefore, observed, exitCode, run, folder,
                 out_path, todo, path, code, tree, reads, file_errors,
                 called_by_sites, result, prevResult>>

\* walk() exceeds the recursion limit: the RecursionError is caught nowhere
\* and ends the process with a traceback
ExtractRaise ==
  /\ pc = "extract"
  /\ WalkRaises(TreeOf(tree))
  /\ Exit(1)
  /\ UNCHANGED <<consumers, argv, fs, outFile, outBefore, observed, run, locals, prevResult>>

\* the loop is over: called_by_sites is derived from call_sites
InvertSites ==
  /\ pc = "loop" /\ todo = <<>>
  /\ called_by_sites' = Invert(call_sites)
  /\ pc' = "result"
  /\ UNCHANGED <<consumers, argv, fs, outFile, outBefore, observed, exitCode, run, folder,
                 out_path, todo, path, code, tree, reads, functions, calls_map,
                 call_sites, file_errors, result, prevResult>>

\* result = {...}; return result
BuildResult ==
  /\ pc = "result"
  /\ result' = MakeResult(folder, functions, calls_map, call_sites,
                          called_by_sites, file_errors)
  /\ pc' = "write"
  /\ UNCHANGED <<consumers, argv, fs, outFile, outBefore, observed, exitCode, run, folder,
                 out_path, todo, path, code, tree, reads, accs, prevResult>>

(***************************************************************************)
(* out_path.write_text(json.dumps(result, indent=2)): the text is complete *)
(* in memory, the file is opened for writing (which truncates it), the     *)
(* text reaches the disk in one or more chunks, the file is closed.        *)
(***************************************************************************)
WriteOpen ==
  /\ pc = "write"
  /\ outFile' = OnDisk(result, 0)
  /\ pc' = "writing"
  /\ UNCHANGED <<consumers, argv, fs, outBefore, observed, exitCode, run, locals, prevResult>>

WriteData ==
  /\ pc = "writing"
  /\ outFile.upto < MaxChunks
  /\ \E k \in (outFile.upto + 1)..MaxChunks : outFile' = OnDisk(result, k)
  /\ UNCHANGED <<consumers, argv, fs, outBefore, observed, pc, exitCode, run, locals, prevResult>>

\* the file is closed, the summary is printed, main returns
WriteClose ==
  /\ pc = "writing"
  /\ outFile.upto = MaxChunks
  /\ Exit(0)
  /\ UNCHANGED <<consumers, argv, fs, outFile, outBefore, observed, run, locals, prevResult>>

(***************************************************************************)
(* The environment.                                                         *)
(***************************************************************************)
\* the host ends the process (there is no cancellation in the indexer)
Interrupt ==
  /\ pc \notin {"main", "exited"}
  /\ Exit(Killed)
  /\ UNCHANGED <<consumers, argv, fs, outFile, outBefore, observed, run, locals, prevResult>>

\* another process reads the output path
ReaderRead ==
  /\ observed = NotRead
  /\ observed' = outFile
  /\ UNCHANGED <<consumers, argv, fs, outFile, outBefore, pc, exitCode, run, locals, prevResult>>

\* the indexer is started again on the unchanged tree
Rerun ==
  /\ pc = "exited" /\ exitCode = 0
  /\ run < MaxRuns
  /\ run' = run + 1
  /\ prevResult' = result
  /\ outBefore' = outFile
  /\ pc' = "main" /\ exitCode' = NoExit
  /\ folder' = <<>> /\ out_path' = <<>>
  /\ todo' = <<>> /\ path' = <<>> /\ code' = "" /\ tree' = ""
  /\ reads' = <<>>
  /\ functions' = EmptyDict /\ calls_map' = EmptyDict /\ call_sites' = EmptyDict
  /\ file_errors' = <<>> /\ called_by_sites' = EmptyDict
  /\ result' = NoDoc
  /\ UNCHANGED <<consumers, argv, fs, outFile, observed>>

Next ==
  \/ MainUsage \/ MainBadRoot \/ MainOk
  \/ AnalyzeBegin
  \/ ReadOk \/ ReadFail \/ ParseOk \/ ParseFail \/ ExtractOk \/ ExtractRaise
  \/ InvertSites \/ BuildResult
  \/ WriteOpen \/ WriteData \/ WriteClose
  \/ Interrupt \/ ReaderRead \/ Rerun

Spec == Init /\ [][Next]_vars

(***************************************************************************)
(* The consumers of the document: the console Navigator (nav_console.py)   *)
(* and the GUI's WorkspaceBackend.  Each runs in a process of its own,     *)
(* after an indexer run, on the document that run left on disk.            *)
(***************************************************************************)
\* the names a user or a caller may type: names of the documents, names that
\* differ from one of them only in case, and a name that occurs nowhere
Symbols == {"main", "helper", "g", "Helper", "nosuch"}

\* str.lower
lower(s) ==
  CASE s = "Helper" -> "helper"
    [] s = "Main"   -> "main"
    [] s = "ER"     -> "er"
    [] OTHER        -> s

\* the order of Python's string comparison (by code point) on the names
Collation == << "Helper", "Main", "deep", "g", "h", "helper", "inner", "k",
                "main", "nosuch", "outer", "p->fn", "rec" >>

Rank(s) == CHOOSE i \in 1..Len(Collation) : Collation[i] = s

\* sorted(names)
sorted(names) == SelectSeq(Collation, LAMBDA s : s \in names)

\* sorted(names, key=str.lower)
sorted_lower(names) ==
  SortSeq(sorted(names), LAMBDA a, b : Rank(lower(a)) < Rank(lower(b)))

\* q in n, for the queries of the search command
IsSubstring ==
  { <<"in", "inner">>, <<"in", "main">>,
    <<"er", "helper">>, <<"er", "inner">>, <<"er", "outer">> }

Range(seq) == { seq[i] : i \in 1..Len(seq) }

\* seq[:n]
Take(seq, n) == IF Len(seq) <= n THEN seq ELSE SubSeq(seq, 1, n)

\* seq[-n:]
Last(seq, n) == IF Len(seq) <= n THEN seq ELSE SubSeq(seq, Len(seq) - n + 1, Len(seq))

\* variant: a key matches whatever its case
Get_casefold(d, k) ==
  LET hits == { i \in 1..Len(d.keys) : lower(d.keys[i]) = lower(k) }
  IN  IF hits = {} THEN <<>> ELSE d.at[d.keys[CHOOSE i \in hits : TRUE]]

\* d.get(k, [])
Get(d, k) == IF k \in DOMAIN d.at THEN d.at[k] ELSE <<>>

\* the reading and parsing of every candidate file, in the order of the loop
RECURSIVE analyze_files(_, _, _)
analyze_files(f, acc, paths) ==
  IF paths = <<>> THEN acc
  ELSE LET p == Head(paths)
           c == f.files[p]
       IN  IF ~c.readable
           THEN analyze_files(f, [acc EXCEPT !.errors =
                                    Append(@, [file |-> p, error |-> "read failed"])],
                              Tail(paths))
           ELSE IF ~c.parses
           THEN analyze_files(f, [acc EXCEPT !.errors =
                                    Append(@, [file |-> p, error |-> "parse failed"])],
                              Tail(paths))
           ELSE LET got == ExtractDefs([functions |-> acc.functions,
                                        calls_map |-> acc.calls_map,
                                        call_sites |-> acc.call_sites],
                                       p, TreeOf(c.tree), walk(TreeOf(c.tree), 1))
                IN  analyze_files(f, [acc EXCEPT !.functions = got.functions,
                                                 !.calls_map = got.calls_map,
                                                 !.call_sites = got.call_sites],
                                  Tail(paths))

\* the document a completed run of the indexer leaves for the tree f
analyze_folder(f) ==
  LET acc == analyze_files(f, [functions |-> EmptyDict, calls_map |-> EmptyDict,
                               call_sites |-> EmptyDict, errors |-> <<>>],
                           iter_source_files(f, f.root))
  IN  MakeResult(f.root, acc.functions, acc.calls_map, acc.call_sites,
                 Invert(acc.call_sites), acc.errors)

\* the call just made: the method, its argument, what it printed and returned
Out(call, arg, printed, ret) ==
  [call |-> call, arg |-> arg, printed |-> printed, ret |-> ret]

\* the choices pick() offers on a menu: 0 cancels; an empty menu is not shown
Picks(menu) == 0..Len(menu)

\* the index file is whole: json.loads accepts it
Loadable == outFile.exists /\ outFile.upto = MaxChunks /\ outFile.doc # NoDoc

(***************************************************************************)
(* Navigator                                                                *)
(***************************************************************************)
\* variant: a view equal to the current one is not pushed again
_push_dedup(state) ==
  /\ history' = IF current # NoView /\ current # state
                THEN Append(history, current) ELSE history
  /\ future' = IF current # NoView THEN <<>> ELSE future
  /\ current' = state

\* Navigator._push
_push(state) ==
  /\ history' = IF current # NoView THEN Append(history, current) ELSE history
  /\ future' = IF current # NoView THEN <<>> ELSE future
  /\ current' = state

\* variant: going back forgets the way forward
back_forgetful ==
  IF history = <<>>
  THEN /\ nav_out' = Out("back", "", "No back history.", <<>>)
       /\ UNCHANGED <<history, current, future>>
  ELSE /\ future' = <<current>>
       /\ current' = history[Len(history)]
       /\ history' = SubSeq(history, 1, Len(history) - 1)
       /\ nav_out' = Out("back", "", "", <<>>)

\* Navigator.back
back ==
  IF history = <<>>
  THEN /\ nav_out' = Out("back", "", "No back history.", <<>>)
       /\ UNCHANGED <<history, current, future>>
  ELSE /\ future' = Append(future, current)
       /\ current' = history[Len(history)]
       /\ history' = SubSeq(history, 1, Len(history) - 1)
       /\ nav_out' = Out("back", "", "", <<>>)

\* Navigator.forward
forward ==
  IF future = <<>>
  THEN /\ nav_out' = Out("forward", "", "No forward history.", <<>>)
       /\ UNCHANGED <<history, current, future>>
  ELSE /\ history' = Append(history, current)
       /\ current' = future[Len(future)]
       /\ future' = SubSeq(future, 1, Len(future) - 1)
       /\ nav_out' = Out("forward", "", "", <<>>)

\* variant: the lists are cut in memory too
save_session_truncating ==
  /\ session' = [exists |-> TRUE, saved_at |-> "now", root |-> data.root,
                 index_file |-> argv[1], current |-> current,
                 history |-> Last(history, 200), bookmarks |-> Last(bookmarks, 200)]
  /\ history' = Last(history, 200)
  /\ bookmarks' = Last(bookmarks, 200)
  /\ nav_out' = Out("save_session", "", "Saved session", <<>>)
  /\ UNCHANGED <<current, future>>

\* Navigator.save_session; saved_at is the wall clock's reading, which no
\* operation interprets
save_session ==
  /\ session' = [exists |-> TRUE, saved_at |-> "now", root |-> data.root,
                 index_file |-> argv[1], current |-> current,
                 history |-> Last(history, 200), bookmarks |-> Last(bookmarks, 200)]
  /\ nav_out' = Out("save_session", "", "Saved session", <<>>)
  /\ UNCHANGED <<history, bookmarks, current, future>>

\* Navigator.mark
mark ==
  IF current = NoView
  THEN /\ nav_out' = Out("mark", "", "Nothing to bookmark.", <<>>)
       /\ UNCHANGED bookmarks
  ELSE /\ bookmarks' = Append(bookmarks, current)
       /\ nav_out' = Out("mark", "", "Bookmarked.", <<>>)

\* Navigator.list_marks
list_marks ==
  nav_out' = Out("list_marks", "",
                 IF bookmarks = <<>> THEN "No bookmarks yet." ELSE "",
                 [i \in 1..Len(bookmarks) |->
                    <<bookmarks[i].kind, bookmarks[i].title, bookmarks[i].loc>>])

\* Navigator.search_function
search_function(query) ==
  SelectSeq(sorted(DOMAIN data.functions.at), LAMBDA n : <<query, n>> \in IsSubstring)

\* the view set_current_function builds from the document d
FunctionViewOf(d, fn_name) ==
  LET locs == Get(d.functions, fn_name)
  IN  [kind |-> "function", title |-> fn_name,
       loc |-> IF locs # <<>> THEN <<Len(locs), " defs">> ELSE <<0, "no def">>,
       fn |-> fn_name]

\* Navigator.set_current_function
set_current_function(fn_name) ==
  /\ _push(FunctionViewOf(data, fn_name))
  /\ nav_out' = Out("set_current_function", fn_name, "", <<>>)
  /\ UNCHANGED nav_pc

\* the shown view's file is read by snippet(); a failure ends the process
ShowSnippet(file) ==
  nav_pc' = IF file \in DOMAIN fs.files /\ fs.files[file].readable THEN "loop" ELSE "crashed"

\* Navigator.open_definition; choice is the answer to pick()
open_definition(fn_name, choice) ==
  LET locs == Get(data.functions, fn_name)
      menu == [i \in 1..Len(Take(locs, 80)) |->
                 <<locs[i].file, locs[i].start_line, locs[i].end_line>>]
  IN  IF locs = <<>>
      THEN /\ nav_out' = Out("open_definition", fn_name,
                             "No definition locations found", <<>>)
           /\ UNCHANGED <<history, current, future, nav_pc>>
      ELSE IF choice \notin 1..Len(menu)
      THEN /\ nav_out' = Out("open_definition", fn_name, "", <<>>)
           /\ UNCHANGED <<history, current, future, nav_pc>>
      ELSE LET picked == menu[choice]
           IN  /\ _push([kind |-> "definition", title |-> fn_name,
                         loc |-> <<picked[1], picked[2]>>,
                         file |-> picked[1], line |-> picked[2]])
               /\ nav_out' = Out("open_definition", fn_name, "snippet", <<>>)
               /\ ShowSnippet(picked[1])

\* Navigator.list_callees
list_callees(fn_name) == sorted(Range(Get(data.calls, fn_name)))

\* Navigator.jump_callsite; c1 and c2 are the answers to the two pick() calls
jump_callsite(fn_name, c1, c2) ==
  LET sites  == Get(data.call_sites, fn_name)
      names  == { sites[i].callee : i \in 1..Len(sites) }
      counts == [k \in names |->
                   Cardinality({ i \in 1..Len(sites) : sites[i].callee = k })]
      callee_menu == Take(SortSeq(sorted(names),
                            LAMBDA a, b : \/ counts[a] > counts[b]
                                          \/ /\ counts[a] = counts[b]
                                             /\ Rank(a) < Rank(b)), 120)
  IN  IF sites = <<>>
      THEN /\ nav_out' = Out("jump_callsite", fn_name,
                             "No call sites for this function.", <<>>)
           /\ UNCHANGED <<history, current, future, nav_pc>>
      ELSE IF c1 \notin 1..Len(callee_menu)
      THEN /\ nav_out' = Out("jump_callsite", fn_name, "", <<>>)
           /\ UNCHANGED <<history, current, future, nav_pc>>
      ELSE LET callee == callee_menu[c1]
               chosen_sites == Take(SelectSeq(sites, LAMBDA s : s.callee = callee), 300)
           IN  IF c2 \notin 1..Len(chosen_sites)
               THEN /\ nav_out' = Out("jump_callsite", fn_name, "", <<>>)
                    /\ UNCHANGED <<history, current, future, nav_pc>>
               ELSE LET s == chosen_sites[c2]
                    IN  /\ _push([kind |-> "callsite",
                                  title |-> <<fn_name, " -> ", callee>>,
                                  loc |-> <<s.file, s.line, s.col>>,
                                  file |-> s.file, line |-> s.line, col |-> s.col,
                                  caller |-> fn_name, callee |-> callee])
                        /\ nav_out' = Out("jump_callsite", fn_name, "snippet", <<>>)
                        /\ ShowSnippet(s.file)

\* Navigator.who_calls_symbol_menu
who_calls_symbol_menu(symbol) ==
  LET items == Take(Get(data.called_by_sites, symbol), 400)
  IN  [i \in 1..Len(items) |->
         <<items[i].caller, " @ ", items[i].file, items[i].line, items[i].col>>]

\* Navigator.jump_to_definition_of_symbol
jump_to_definition_of_symbol(symbol, choice) ==
  IF symbol \notin DOMAIN data.functions.at
  THEN /\ nav_out' = Out("jump_to_definition_of_symbol", symbol,
                         "No definitions found", <<>>)
       /\ UNCHANGED <<history, current, future, nav_pc>>
  ELSE open_definition(symbol, choice)

(***************************************************************************)
(* The console's command loop (main): one action per command; nav_steps    *)
(* counts the commands of the session.                                      *)
(***************************************************************************)
NavFrame == UNCHANGED <<indexer, backend, _project, index_callsites, script, presenter>>

Still == UNCHANGED <<history, current, future, nav_pc>>

\* one more command is read
Command == nav_pc = "loop" /\ nav_steps < MaxSteps /\ nav_steps' = nav_steps + 1

\* main up to the loop: the index is loaded and the Navigator is constructed;
\* load_json raises on a file that is missing or not whole
NavMain ==
  /\ nav_pc = "start"
  /\ IF Loadable
     THEN data' = outFile.doc /\ nav_pc' = "loop"
     ELSE nav_pc' = "crashed" /\ UNCHANGED data
  /\ UNCHANGED <<history, future, bookmarks, current, session, nav_out, nav_steps>>
  /\ NavFrame

SelectFirst ==
  /\ nav_out' = Out("", "", "Select a function first (cmd: s).", <<>>)
  /\ Still

\* cmd == "s"
CmdS ==
  /\ Command
  /\ \E q \in {"in", "er", "Main"} :
       LET matches == search_function(q)
       IN  IF matches = <<>>
           THEN nav_out' = Out("search_function", q, "No matches.", <<>>) /\ Still
           ELSE \E choice \in Picks(Take(matches, 120)) :
                  IF choice = 0
                  THEN nav_out' = Out("search_function", q, "", matches) /\ Still
                  ELSE set_current_function(matches[choice])
  /\ UNCHANGED <<data, bookmarks, session>>
  /\ NavFrame

\* cmd == "o"
CmdO ==
  /\ Command
  /\ IF current = NoView \/ current.kind # "function"
     THEN SelectFirst
     ELSE \E choice \in Picks(Get(data.functions, current.fn)) :
            open_definition(current.fn, choice)
  /\ UNCHANGED <<data, bookmarks, session>>
  /\ NavFrame

\* cmd == "c"
CmdC ==
  /\ Command
  /\ IF current = NoView \/ current.kind # "function"
     THEN SelectFirst
     ELSE LET callees == list_callees(current.fn)
          IN  /\ nav_out' = Out("list_callees", current.fn,
                                IF callees = <<>> THEN "No callees." ELSE "",
                                Take(callees, 200))
              /\ Still
  /\ UNCHANGED <<data, bookmarks, session>>
  /\ NavFrame

\* cmd == "cs"
CmdCs ==
  /\ Command
  /\ IF current = NoView \/ current.kind # "function"
     THEN SelectFirst
     ELSE \E c1, c2 \in Picks(Get(data.call_sites, current.fn)) :
            jump_callsite(current.fn, c1, c2)
  /\ UNCHANGED <<data, bookmarks, session>>
  /\ NavFrame

\* cmd == "cb"
CmdCb ==
  /\ Command
  /\ IF current = NoView
     THEN nav_out' = Out("", "", "No current selection.", <<>>) /\ Still
     ELSE LET symbol == IF current.kind = "function" THEN current.fn
                        ELSE IF "callee" \in DOMAIN current /\ current.callee # ""
                        THEN current.callee
                        ELSE current.title
              menu   == who_calls_symbol_menu(symbol)
          IN  IF symbol = ""
              THEN nav_out' = Out("", "", "No symbol to query.", <<>>) /\ Still
              ELSE IF menu = <<>>
              THEN /\ nav_out' = Out("who_calls_symbol_menu", symbol,
                                     "No callers found for:", menu)
                   /\ Still
              ELSE \E choice \in Picks(menu) :
                     IF choice = 0
                     THEN nav_out' = Out("who_calls_symbol_menu", symbol, "", menu) /\ Still
                     ELSE LET chosen == menu[choice]
                          IN  /\ _push([kind |-> "caller_site",
                                        title |-> <<chosen[1], " -> ", symbol>>,
                                        loc |-> <<chosen[3], chosen[4], chosen[5]>>,
                                        file |-> chosen[3], line |-> chosen[4],
                                        col |-> chosen[5],
                                        caller |-> chosen[1], callee |-> symbol])
                              /\ nav_out' = Out("who_calls_symbol_menu", symbol,
                                                "snippet", menu)
                              /\ ShowSnippet(chosen[3])
  /\ UNCHANGED <<data, bookmarks, session>>
  /\ NavFrame

\* cmd == "jd"
CmdJd ==
  /\ Command
  /\ \E sym \in Symbols :
       \E choice \in Picks(Get(data.functions, sym)) :
         jump_to_definition_of_symbol(sym, choice)
  /\ UNCHANGED <<data, bookmarks, session>>
  /\ NavFrame

\* cmd == "b"
CmdB ==
  /\ Command
  /\ back
  /\ UNCHANGED <<nav_pc, data, bookmarks, session>>
  /\ NavFrame

\* cmd == "f"
CmdF ==
  /\ Command
  /\ forward
  /\ UNCHANGED <<nav_pc, data, bookmarks, session>>
  /\ NavFrame

\* cmd == "m"
CmdM ==
  /\ Command
  /\ mark
  /\ UNCHANGED <<nav_pc, data, history, current, future, session>>
  /\ NavFrame

\* cmd == "marks"
CmdMarks ==
  /\ Command
  /\ list_marks
  /\ UNCHANGED <<nav_pc, data, history, current, future, bookmarks, session>>
  /\ NavFrame

\* cmd == "save"
CmdSave ==
  /\ Command
  /\ save_session
  /\ UNCHANGED <<nav_pc, data>>
  /\ NavFrame

\* cmd in ("help", "?"), or a command the loop does not know
CmdHelp ==
  /\ Command
  /\ \E msg \in {"Commands:", "Unknown command. Type 'help' or '?'."} :
       nav_out' = Out("", "", msg, <<>>)
  /\ UNCHANGED <<nav_pc, data, history, current, future, bookmarks, session>>
  /\ NavFrame

\* cmd in ("q", "quit", "exit")
CmdQuit ==
  /\ nav_pc = "loop"
  /\ nav_pc' = "quit"
  /\ UNCHANGED <<data, history, current, future, bookmarks, session, nav_out, nav_steps>>
  /\ NavFrame

(***************************************************************************)
(* The Navigator's lookups called with any name, as a caller of the class  *)
(* other than the command loop may.                                         *)
(***************************************************************************)
CallOpenDefinition ==
  /\ Command
  /\ \E fn_name \in Symbols :
       \E choice \in Picks(Get(data.functions, fn_name)) :
         open_definition(fn_name, choice)
  /\ UNCHANGED <<data, bookmarks, session>>
  /\ NavFrame

CallJumpCallsite ==
  /\ Command
  /\ \E fn_name \in Symbols :
       \E c1, c2 \in Picks(Get(data.call_sites, fn_name)) :
         jump_callsite(fn_name, c1, c2)
  /\ UNCHANGED <<data, bookmarks, session>>
  /\ NavFrame

(***************************************************************************)
(* WorkspaceBackend                                                          *)
(***************************************************************************)
\* relpath: the path below the root, or the path itself if it is not below
relpath(root, p) ==
  IF startswith(p, root) /\ Len(p) > Len(root)
  THEN SubSeq(p, Len(root) + 1, Len(p)) ELSE p

\* every list entry of a dictionary of lists, with its key
Entries(d) ==
  UNION { { [key |-> k, val |-> d.at[k][i]] : i \in 1..Len(d.at[k]) } : k \in DOMAIN d.at }

BackendFrame == UNCHANGED <<indexer, navigator, _project, index_callsites, script, presenter>>

\* the backend, the presenter and the window, as one value the methods work on
Gui ==
  [_project |-> _project, _files |-> _files, _outline |-> _outline,
   _callers |-> _callers, _callees |-> _callees, _callsites |-> _callsites,
   _call_sites_out |-> _call_sites_out, _call_sites_in |-> _call_sites_in,
   gui_out |-> gui_out,
   current_symbol |-> current_symbol, back_stack |-> back_stack,
   forward_stack |-> forward_stack, _current_file |-> _current_file,
   _full_outline |-> _full_outline, view |-> view]

\* variant: the cached callsite strings survive a load
_load_index_from_json_keep(s, d) ==
  LET rel(p)     == relpath(d.root, p)
      \* the order of the relative paths as strings, compared by str.lower
      FileCollation == << <<N_a_c>>, <<N_b_h>>, <<N_sub, N_c_c>> >>
      def_files  == { rel(e.val.file) : e \in Entries(d.functions) }
      site_files == { rel(e.val.file) : e \in Entries(d.call_sites) }
  IN  [s EXCEPT
         !._files = SelectSeq(FileCollation, LAMBDA rf : rf \in def_files \cup site_files),
         !._outline =
            [rf \in def_files |->
               LET names == sorted_lower({ e.key : e \in
                              { x \in Entries(d.functions) : rel(x.val.file) = rf } })
               IN  [i \in 1..Len(names) |-> [name |-> names[i], kind |-> "function"]]],
         !._callees = [caller \in DOMAIN d.calls.at |->
                         sorted_lower(Range(d.calls.at[caller]))],
         !._callers = [callee \in DOMAIN d.called_by_sites.at |->
                         sorted_lower({ d.called_by_sites.at[callee][i].caller :
                                        i \in 1..Len(d.called_by_sites.at[callee]) })],
         !._call_sites_in =
            [callee \in DOMAIN d.called_by_sites.at |->
               [i \in 1..Len(d.called_by_sites.at[callee]) |->
                  LET x == d.called_by_sites.at[callee][i]
                  IN  [caller |-> x.caller, file |-> rel(x.file),
                       line |-> x.line, col |-> x.col]]],
         !._call_sites_out =
            [caller \in DOMAIN d.call_sites.at |->
               [i \in 1..Len(d.call_sites.at[caller]) |->
                  LET x == d.call_sites.at[caller][i]
                  IN  [callee |-> x.callee, file |-> rel(x.file),
                       line |-> x.line, col |-> x.col]]]]

\* WorkspaceBackend._load_index_from_json, once json.loads has returned d:
\* the maps are built in locals and assigned together at the end
_load_index_from_json(s, d) ==
  LET rel(p)     == relpath(d.root, p)
      \* the order of the relative paths as strings, compared by str.lower
      FileCollation == << <<N_a_c>>, <<N_b_h>>, <<N_sub, N_c_c>> >>
      def_files  == { rel(e.val.file) : e \in Entries(d.functions) }
      site_files == { rel(e.val.file) : e \in Entries(d.call_sites) }
  IN  [s EXCEPT
         !._files = SelectSeq(FileCollation, LAMBDA rf : rf \in def_files \cup site_files),
         !._outline =
            [rf \in def_files |->
               LET names == sorted_lower({ e.key : e \in
                              { x \in Entries(d.functions) : rel(x.val.file) = rf } })
               IN  [i \in 1..Len(names) |-> [name |-> names[i], kind |-> "function"]]],
         !._callees = [caller \in DOMAIN d.calls.at |->
                         sorted_lower(Range(d.calls.at[caller]))],
         !._callers = [callee \in DOMAIN d.called_by_sites.at |->
                         sorted_lower({ d.called_by_sites.at[callee][i].caller :
                                        i \in 1..Len(d.called_by_sites.at[callee]) })],
         !._call_sites_in =
            [callee \in DOMAIN d.called_by_sites.at |->
               [i \in 1..Len(d.called_by_sites.at[callee]) |->
                  LET x == d.called_by_sites.at[callee][i]
                  IN  [caller |-> x.caller, file |-> rel(x.file),
                       line |-> x.line, col |-> x.col]]],
         !._call_sites_out =
            [caller \in DOMAIN d.call_sites.at |->
               [i \in 1..Len(d.call_sites.at[caller]) |->
                  LET x == d.call_sites.at[caller][i]
                  IN  [callee |-> x.callee, file |-> rel(x.file),
                       line |-> x.line, col |-> x.col]]],
         !._callsites = NoMap]

\* WorkspaceBackend._load_index_from_json on the output path; json.loads
\* raises on a file that is missing or not whole
LoadIndex ==
  /\ gui_pc = "start"
  /\ IF ~Loadable
     THEN /\ gui_pc' = "failed"
          /\ UNCHANGED <<_files, _outline, _callers, _callees, _callsites,
                         _call_sites_out, _call_sites_in>>
     ELSE LET t == _load_index_from_json(Gui, outFile.doc)
          IN  /\ _files' = t._files
              /\ _outline' = t._outline
              /\ _callees' = t._callees
              /\ _callers' = t._callers
              /\ _call_sites_in' = t._call_sites_in
              /\ _call_sites_out' = t._call_sites_out
              /\ _callsites' = t._callsites
              /\ gui_pc' = "ready"
  /\ UNCHANGED gui_out
  /\ BackendFrame

\* m.get(k, []) on a plain dictionary
MapGet(m, k) == IF k \in DOMAIN m THEN m[k] ELSE <<>>

\* WorkspaceBackend.list_files
ListFiles ==
  /\ gui_pc = "ready"
  /\ gui_out' = Out("list_files", "", "", _files)
  /\ UNCHANGED <<gui_pc, _files, _outline, _callers, _callees, _callsites,
                 _call_sites_out, _call_sites_in>>
  /\ BackendFrame

\* WorkspaceBackend.list_outline, asked for the relative paths, a file
\* without definitions, a path that is not relative, a name in another case
ListOutline ==
  /\ gui_pc = "ready"
  /\ \E filename \in { <<N_a_c>>, <<N_b_h>>, <<N_sub, N_c_c>>, <<N_notes_txt>>,
                        <<N_proj, N_a_c>>, << <<"A", ".", "c">> >> } :
       gui_out' = Out("list_outline", filename, "", MapGet(_outline, filename))
  /\ UNCHANGED <<gui_pc, _files, _outline, _callers, _callees, _callsites,
                 _call_sites_out, _call_sites_in>>
  /\ BackendFrame

\* the callsite strings one_hop builds from the sites of a symbol
CallsiteStrings(outs, ins) ==
  [i \in 1..Len(outs) |->
     <<"OUT  ", outs[i].file, outs[i].line, outs[i].col, " -> ", outs[i].callee>>]
  \o
  [i \in 1..Len(ins) |->
     <<"IN   ", ins[i].file, ins[i].line, ins[i].col, " <- ", ins[i].caller>>]

\* WorkspaceBackend.one_hop on the backend s: the strings are built on the
\* first call for a symbol and kept in _callsites
one_hop(s, symbol) ==
  LET cache == IF symbol \in DOMAIN s._callsites THEN s._callsites
               ELSE (symbol :> CallsiteStrings(MapGet(s._call_sites_out, symbol),
                                               MapGet(s._call_sites_in, symbol)))
                    @@ s._callsites
  IN  [s EXCEPT !._callsites = cache,
                !.gui_out = Out("one_hop", symbol, "",
                                [center    |-> symbol,
                                 callers   |-> MapGet(s._callers, symbol),
                                 callees   |-> MapGet(s._callees, symbol),
                                 callsites |-> MapGet(cache, symbol)])]

\* a call of WorkspaceBackend.one_hop
OneHop ==
  /\ gui_pc = "ready"
  /\ \E symbol \in Symbols :
       LET t == one_hop(Gui, symbol)
       IN  /\ _callsites' = t._callsites
           /\ gui_out' = t.gui_out
  /\ UNCHANGED <<gui_pc, _files, _outline, _callers, _callees,
                 _call_sites_out, _call_sites_in>>
  /\ BackendFrame

(***************************************************************************)
(* The consumers' specification.  The indexer has run to completion on the *)
(* tree and its process is gone; one consumer is started on what the       *)
(* output path holds, or a console session is already long under way.      *)
(***************************************************************************)
\* Worlds: the trees indexed, and whether b.h became unreadable after the
\* indexing.  LongSessionViews: a console session in which LongSession
\* functions were selected and bookmarked one after the other.
InitConsumers ==
  LET Worlds ==
        { [a |-> Content(TRUE, TRUE, "T_scenario"), b |-> Absent,
           c |-> Content(TRUE, TRUE, "T_multi"), later |-> Absent],
          [a |-> Content(TRUE, TRUE, "T_nested"), b |-> Content(TRUE, TRUE, "T_scenario"),
           c |-> Unreadable, later |-> Unreadable] }
      LongSessionViews(d) ==
        [i \in 1..LongSession |->
           FunctionViewOf(d, d.functions.keys[((i - 1) % Len(d.functions.keys)) + 1])]
  IN
  /\ \E w \in Worlds :
       /\ fs \in { MkFS(<<N_proj>>, w.a, w.b, w.c), MkFS(<<N_proj>>, w.a, w.later, w.c) }
       /\ \E upto \in {0, MaxChunks} :
            outFile = OnDisk(analyze_folder(MkFS(<<N_proj>>, w.a, w.b, w.c)), upto)
  /\ argv = << <<N_proj>> >>
  /\ outBefore = NoFile /\ observed = NotRead
  /\ pc = "exited" /\ exitCode = 0 /\ run = 1
  /\ prevResult = NoDoc
  /\ LocalsInit
  /\ \/ /\ nav_pc = "start" /\ data = NoDoc
        /\ history = <<>> /\ future = <<>> /\ bookmarks = <<>> /\ current = NoView
        /\ session = NoSession /\ nav_out = NoCall /\ nav_steps = 0
        /\ BackendOff /\ GuiOff
     \/ /\ Loadable /\ fs.files = MkFS(<<N_proj>>, Content(TRUE, TRUE, "T_scenario"), Absent,
                                         Content(TRUE, TRUE, "T_multi")).files
        /\ nav_pc = "loop" /\ data = outFile.doc
        /\ history = LongSessionViews(data)
        /\ bookmarks = history
        /\ current = FunctionViewOf(data, data.functions.keys[1])
        /\ future = <<>>
        /\ session = NoSession /\ nav_out = NoCall /\ nav_steps = 0
        /\ BackendOff /\ GuiOff
     \/ /\ NavigatorOff
        /\ gui_pc = "start"
        /\ _files = <<>> /\ _outline = NoMap /\ _callers = NoMap /\ _callees = NoMap
        /\ _callsites = NoMap /\ _call_sites_out = NoMap /\ _call_sites_in = NoMap
        /\ gui_out = NoCall
        /\ GuiOff

NextConsumers ==
  \/ NavMain
  \/ CmdS \/ CmdO \/ CmdC \/ CmdCs \/ CmdCb \/ CmdJd
  \/ CmdB \/ CmdF \/ CmdM \/ CmdMarks \/ CmdSave \/ CmdHelp \/ CmdQuit
  \/ CallOpenDefinition \/ CallJumpCallsite
  \/ LoadIndex \/ ListFiles \/ ListOutline \/ OneHop

SpecConsumers == InitConsumers /\ [][NextConsumers]_vars


(***************************************************************************)
(* The GUI: CodeMapPresenter on a WorkspaceBackend and a MainWindow.  A     *)
(* handler runs to its end before the next view event is delivered, and a  *)
(* list widget that gets a current row emits its signal inside the call    *)
(* that set it, so a handler includes the handlers it sets off.             *)
(***************************************************************************)
N_codemap == << ".", "c", "o", "d", "e", "m", "a", "p" >>

\* bool(symbol) of a str | None
Truthy(symbol) == symbol \notin {NoSymbol, ""}
\* a message of the status bar: its words and the values formatted into it
Status(msg, file, index, symbol) ==
  [msg |-> msg, file |-> file, index |-> index, symbol |-> symbol]

\* str.strip on what the lists and the search box hold
strip(text) == IF text = " ER " THEN "ER" ELSE text

\* ConstellationView._max_side
_max_side == 12

\* items if items else ["(none)"]
OrNone(items, none) == IF items = <<>> THEN <<none>> ELSE items

\* ConstellationView.set_graph: the nodes that can be clicked afterwards
set_graph(center, callers, callees) ==
  [center  |-> center,
   callers |-> Take(sorted_lower(Range(callers)), _max_side),
   callees |-> Take(sorted_lower(Range(callees)), _max_side)]

\* variant: the current symbol is pushed even when it is the target
navigate_to_always(s, symbol, push_history) ==
  LET pushed == IF push_history /\ Truthy(s.current_symbol)
                THEN [s EXCEPT !.back_stack = Append(@, s.current_symbol),
                               !.forward_stack = <<>>]
                ELSE s
      t      == one_hop([pushed EXCEPT !.current_symbol = symbol], symbol)
      hop    == t.gui_out.ret
      file_part == IF s._current_file \notin {NoFilename, <<>>} THEN s._current_file ELSE <<>>
  IN  [t EXCEPT !.view.callers   = OrNone(hop.callers, "(none)"),
                !.view.callees   = OrNone(hop.callees, "(none)"),
                !.view.callsites = OrNone(hop.callsites, <<"(none)">>),
                !.view.graph     = set_graph(hop.center, hop.callers, hop.callees),
                !.view.status    = Status("  |  ", file_part, <<>>, symbol)]

\* CodeMapPresenter.navigate_to
navigate_to(s, symbol, push_history) ==
  LET pushed == IF push_history /\ Truthy(s.current_symbol) /\ s.current_symbol # symbol
                THEN [s EXCEPT !.back_stack = Append(@, s.current_symbol),
                               !.forward_stack = <<>>]
                ELSE s
      t      == one_hop([pushed EXCEPT !.current_symbol = symbol], symbol)
      hop    == t.gui_out.ret
      file_part == IF s._current_file \notin {NoFilename, <<>>} THEN s._current_file ELSE <<>>
  IN  [t EXCEPT !.view.callers   = OrNone(hop.callers, "(none)"),
                !.view.callees   = OrNone(hop.callees, "(none)"),
                !.view.callsites = OrNone(hop.callsites, <<"(none)">>),
                !.view.graph     = set_graph(hop.center, hop.callers, hop.callees),
                !.view.status    = Status("  |  ", file_part, <<>>, symbol)]

\* CodeMapPresenter.on_outline_selected
on_outline_selected(s, text) ==
  LET symbol == strip(text)
  IN  IF symbol = "" THEN s ELSE navigate_to(s, symbol, TRUE)

\* CodeMapPresenter.on_constellation_node_clicked
on_constellation_node_clicked(s, symbol) == navigate_to(s, symbol, TRUE)

\* MainWindow.set_outline: the list is emptied (the empty text this signals
\* is dropped by on_outline_selected), filled, and its first row made
\* current, which signals outline_selected
set_outline(s, symbols) ==
  LET t == on_outline_selected([s EXCEPT !.view.outline = <<>>], "")
      u == [t EXCEPT !.view.outline = symbols]
  IN  IF symbols = <<>> THEN u ELSE on_outline_selected(u, symbols[1].name)

\* CodeMapPresenter.on_file_selected
on_file_selected(s, filename) ==
  LET listed == MapGet(s._outline, filename)
      t == [s EXCEPT !._current_file = filename,
                     !.view.status   = Status("Selected file: ", filename, <<>>, ""),
                     !.gui_out       = Out("list_outline", filename, "", listed),
                     !._full_outline = listed]
  IN  set_outline(t, listed)

\* file_list.clear(): a list that had a current row signals file_selected
\* with the empty text
file_list_clear(s) ==
  IF s.view.files = <<>> THEN s
  ELSE on_file_selected([s EXCEPT !.view.files = <<>>], <<>>)

\* MainWindow.set_files: the list is emptied, filled, and its first row made
\* current, which signals file_selected
set_files(s, files) ==
  LET t == [file_list_clear(s) EXCEPT !.view.files = files]
  IN  IF files = <<>> THEN t ELSE on_file_selected(t, files[1])

\* CodeMapPresenter.on_search_changed
on_search_changed(s, query) ==
  LET q == lower(strip(query))
      t == [s EXCEPT !.view.search = query]
  IN  IF q = "" THEN set_outline(t, t._full_outline)
      ELSE set_outline(t, SelectSeq(t._full_outline,
                                    LAMBDA e : <<q, lower(e.name)>> \in IsSubstring))

\* variant: going back forgets where forward leads
on_back_clearing(s) ==
  IF s.back_stack = <<>> \/ ~Truthy(s.current_symbol) THEN s
  ELSE LET prev == s.back_stack[Len(s.back_stack)]
       IN  navigate_to([s EXCEPT !.back_stack = SubSeq(@, 1, Len(@) - 1),
                                 !.forward_stack = <<s.current_symbol>>],
                       prev, FALSE)

\* CodeMapPresenter.on_back
on_back(s) ==
  IF s.back_stack = <<>> \/ ~Truthy(s.current_symbol) THEN s
  ELSE LET prev == s.back_stack[Len(s.back_stack)]
       IN  navigate_to([s EXCEPT !.back_stack = SubSeq(@, 1, Len(@) - 1),
                                 !.forward_stack = Append(@, s.current_symbol)],
                       prev, FALSE)

\* CodeMapPresenter.on_forward
on_forward(s) ==
  IF s.forward_stack = <<>> \/ ~Truthy(s.current_symbol) THEN s
  ELSE LET nxt == s.forward_stack[Len(s.forward_stack)]
       IN  navigate_to([s EXCEPT !.forward_stack = SubSeq(@, 1, Len(@) - 1),
                                 !.back_stack = Append(@, s.current_symbol)],
                       nxt, FALSE)

\* the backend, the presenter and the window become s
Becomes(s) ==
  /\ _project' = s._project /\ _files' = s._files /\ _outline' = s._outline
  /\ _callers' = s._callers /\ _callees' = s._callees /\ _callsites' = s._callsites
  /\ _call_sites_out' = s._call_sites_out /\ _call_sites_in' = s._call_sites_in
  /\ gui_out' = s.gui_out
  /\ current_symbol' = s.current_symbol /\ back_stack' = s.back_stack
  /\ forward_stack' = s.forward_stack /\ _current_file' = s._current_file
  /\ _full_outline' = s._full_outline /\ view' = s.view

GuiFrame ==
  UNCHANGED <<navigator, gui_pc, script, argv, outBefore, observed, pc, exitCode,
              run, locals, prevResult>>

\* one more view event is delivered to the presenter
Event(handler, arg, raised) ==
  /\ gui_pc = "ready" /\ gui_steps < MaxEvents
  /\ gui_steps' = gui_steps + 1
  /\ gui_event' = [handler |-> handler, arg |-> arg, raised |-> raised]

\* the user makes a row of the file list current
OnFileSelected ==
  \E filename \in Range(view.files) :
    /\ Event("on_file_selected", filename, "")
    /\ Becomes(on_file_selected(Gui, filename))
    /\ UNCHANGED <<fs, outFile, index_callsites>> /\ GuiFrame

\* the user makes a row of the outline current
OnOutlineSelected ==
  \E i \in 1..Len(view.outline) :
    /\ Event("on_outline_selected", view.outline[i].name, "")
    /\ Becomes(on_outline_selected(Gui, view.outline[i].name))
    /\ UNCHANGED <<fs, outFile, index_callsites>> /\ GuiFrame

\* the user clicks a node of the constellation
OnConstellationNodeClicked ==
  /\ view.graph # NoGraph
  /\ \E symbol \in {view.graph.center} \cup Range(view.graph.callers)
                     \cup Range(view.graph.callees) :
       /\ Event("on_constellation_node_clicked", symbol, "")
       /\ Becomes(on_constellation_node_clicked(Gui, symbol))
  /\ UNCHANGED <<fs, outFile, index_callsites>> /\ GuiFrame

\* the text of the search box changes
OnSearchChanged ==
  \E query \in {"", " ER "} \ {view.search} :
    /\ Event("on_search_changed", query, "")
    /\ Becomes(on_search_changed(Gui, query))
    /\ UNCHANGED <<fs, outFile, index_callsites>> /\ GuiFrame

OnBack ==
  /\ Event("on_back", "", "")
  /\ Becomes(on_back(Gui))
  /\ UNCHANGED <<fs, outFile, index_callsites>> /\ GuiFrame

OnForward ==
  /\ Event("on_forward", "", "")
  /\ Becomes(on_forward(Gui))
  /\ UNCHANGED <<fs, outFile, index_callsites>> /\ GuiFrame

\* workspace.mkdir(parents=True, exist_ok=True), and the listing of the
\* workspace once it holds the index
WithWorkspace(f, holds_index) ==
  LET ws  == Append(f.root, N_codemap)
      top == f.dirs[f.root]
  IN  [f EXCEPT !.dirs =
         (ws :> Listing(<<>>, IF holds_index THEN <<N_out_json>> ELSE <<>>))
         @@ [f.dirs EXCEPT ![f.root] =
               Listing(IF N_codemap \in Range(top.dirnames) THEN top.dirnames
                       ELSE Append(top.dirnames, N_codemap),
                       top.filenames)]]

\* the project trees: two that index, one whose a.c makes the indexer fail
GuiTrees ==
  { [a |-> Content(TRUE, TRUE, "T_scenario"), b |-> Absent,
     c |-> Content(TRUE, TRUE, "T_multi")],
    [a |-> Content(TRUE, TRUE, "T_nested"), b |-> Content(TRUE, TRUE, "T_scenario"),
     c |-> Unreadable],
    [a |-> Content(TRUE, TRUE, "T_deep"), b |-> Absent, c |-> Absent] }

\* some candidate file makes walk() overflow the interpreter's stack
Overflows(f) ==
  \E p \in Range(iter_source_files(f, f.root)) :
    /\ f.files[p].readable /\ f.files[p].parses
    /\ WalkRaises(TreeOf(f.files[p].tree))

\* analyze_folder on every state of the project folder (a tree, without the
\* workspace directory, with it, and with the index in it) that does not
\* make it raise
Indexed ==
  LET Projects ==
        UNION { LET t == MkFS(<<N_proj>>, w.a, w.b, w.c)
                IN  {t, WithWorkspace(t, FALSE), WithWorkspace(t, TRUE)} : w \in GuiTrees }
  IN  [f \in { g \in Projects : ~Overflows(g) } |-> analyze_folder(f)]

\* subprocess.run of the indexer on the root of f with the default output
\* path, which held before: the status it ends with and what the output
\* path holds then, when the host lets it run to its end
Runs(f, before) ==
  IF Overflows(f)
  THEN {[returncode |-> 1, generated |-> before]}
  ELSE {[returncode |-> 0, generated |-> OnDisk(Indexed[f], MaxChunks)]}

\* CodeMapPresenter.on_open_folder when the dialog is cancelled
OnOpenFolderCancelled ==
  /\ Event("on_open_folder", <<>>, "")
  /\ Becomes([Gui EXCEPT !.view.status = Status("Open folder cancelled.", <<>>, <<>>, "")])
  /\ UNCHANGED <<fs, outFile, index_callsites>> /\ GuiFrame

\* variant: a failing open_project also removes the index of the workspace
Raise_unlinking(root, exc, generated) ==
  /\ Event("on_open_folder", root, exc)
  /\ fs' = WithWorkspace(fs, FALSE)
  /\ outFile' = generated
  /\ index_callsites' = NoFile
  /\ Becomes(Gui)

\* open_project raises exc, which ends on_open_folder too: by then the
\* workspace directory was made and the indexer has left generated at the
\* default output path
Raise(root, exc, generated) ==
  /\ Event("on_open_folder", root, exc)
  /\ fs' = WithWorkspace(fs, index_callsites.exists)
  /\ outFile' = generated
  /\ UNCHANGED index_callsites
  /\ Becomes(Gui)

\* variant: the generated document is copied into the workspace
Move_copy(found) ==
  /\ fs' = WithWorkspace(fs, TRUE)
  /\ index_callsites' = found
  /\ outFile' = found

\* the index of the workspace, if any, is unlinked and the generated
\* document is moved to its place
Move(found) ==
  /\ fs' = WithWorkspace(fs, TRUE)
  /\ index_callsites' = found
  /\ outFile' = NoFile

\* WorkspaceBackend.open_project(root) as CodeMapPresenter.on_open_folder
\* calls it, and the rest of on_open_folder when it returns.  r is the run
\* of the indexer; removed: another process deletes the generated document
\* before open_project looks for it.  An exception leaves the handler.
OpenProject(root, r, removed) ==
  LET found == IF removed THEN NoFile ELSE r.generated
  IN
  IF ~script THEN Raise(root, "FileNotFoundError", outFile)
  ELSE IF r.returncode # 0 THEN Raise(root, "RuntimeError", r.generated)
  ELSE IF ~found.exists THEN Raise(root, "FileNotFoundError", found)
  ELSE LET opened == [Gui EXCEPT !._project =
                        [root_dir        |-> root,
                         workspace_dir   |-> Append(root, N_codemap),
                         index_json_path |-> root \o <<N_codemap, N_out_json>>]]
       IN  /\ Move(found)
           /\ IF found.upto # MaxChunks
              THEN /\ Event("on_open_folder", root, "JSONDecodeError")
                   /\ Becomes(opened)
              ELSE LET loaded  == _load_index_from_json(opened, found.doc)
                       c1 == file_list_clear(loaded)
                       c2 == on_outline_selected([c1 EXCEPT !.view.outline = <<>>], "")
                       c3 == [c2 EXCEPT !.view.callers = <<>>, !.view.callees = <<>>,
                                        !.view.callsites = <<>>, !.view.graph = NoGraph,
                                        !.view.status = Status("Opened:   |  Index: ", root,
                                                          loaded._project.index_json_path, ""),
                                        !.gui_out = Out("list_files", "", "", loaded._files)]
                   IN  /\ Event("on_open_folder", root, "")
                       /\ Becomes(set_files(c3, loaded._files))

\* CodeMapPresenter.on_open_folder on the folder the dialog returns
OnOpenFolder ==
  /\ \E r \in Runs(WithWorkspace(fs, index_callsites.exists), outFile) :
     \E removed \in BOOLEAN :
       OpenProject(fs.root, r, removed)
  /\ GuiFrame

\* the user edits the project between two view events
EditTree ==
  /\ gui_pc = "ready"
  /\ \E w \in GuiTrees :
       LET t == MkFS(fs.root, w.a, w.b, w.c)
           f == IF Append(fs.root, N_codemap) \in DOMAIN fs.dirs THEN WithWorkspace(t, index_callsites.exists) ELSE t
       IN  f # fs /\ fs' = f
  /\ UNCHANGED <<outFile, index_callsites, backend, _project, presenter>>
  /\ GuiFrame

\* the indexer script is moved away
MoveScript ==
  /\ gui_pc = "ready"
  /\ script /\ script' = FALSE
  /\ UNCHANGED <<navigator, backend, _project, presenter, <<fs, outFile, index_callsites>>, argv, outBefore,
                 observed, pc, exitCode, run, locals, prevResult>>

\* app.main: the backend and the window are made and presenter.start() has
\* shown the empty file list; no indexer process is running
InitGui ==
  /\ \E w \in GuiTrees : fs = MkFS(<<N_proj>>, w.a, w.b, w.c)
  /\ outFile = NoFile
  /\ argv = << <<N_proj>> >>
  /\ outBefore = NoFile /\ observed = NotRead
  /\ pc = "exited" /\ exitCode = 0 /\ run = 1
  /\ prevResult = NoDoc
  /\ LocalsInit
  /\ NavigatorOff
  /\ gui_pc = "ready"
  /\ _files = <<>> /\ _outline = NoMap /\ _callers = NoMap /\ _callees = NoMap
  /\ _callsites = NoMap /\ _call_sites_out = NoMap /\ _call_sites_in = NoMap
  /\ gui_out = Out("list_files", "", "", <<>>)
  /\ GuiOff

NextGui ==
  \/ OnFileSelected \/ OnOutlineSelected \/ OnConstellationNodeClicked
  \/ OnSearchChanged \/ OnBack \/ OnForward
  \/ OnOpenFolderCancelled \/ OnOpenFolder
  \/ EditTree \/ MoveScript

SpecGui == InitGui /\ [][NextGui]_vars


(***************************************************************************)
(* Vocabulary of the properties.  These definitions describe the source    *)
(* tree and the documents directly, by sets and counts, without using the  *)
(* traversal operators of the model.                                        *)
(***************************************************************************)
\* analyze_folder has returned in the current run
Analyzed == result # NoDoc

\* the run completed: the document is written and the process exited with 0
Completed == pc = "exited" /\ exitCode = 0

Count(seq, e) == Cardinality({ i \in 1..Len(seq) : seq[i] = e })

\* the (key, index) positions of a dictionary of lists
Positions(d) == UNION { {k} \X (1..Len(d.at[k])) : k \in DOMAIN d.at }

Candidates == iter_source_files(fs, fs.root)
CandidateSet == LET c == Candidates IN { c[i] : i \in 1..Len(c) }
FailsToLoad(p) == ~fs.files[p].readable \/ ~fs.files[p].parses
BadFiles == { p \in CandidateSet : FailsToLoad(p) }
GoodPaths == SelectSeq(Candidates, LAMBDA p : ~FailsToLoad(p))

RECURSIVE AnalyzeFiles(_, _)
\* what a sequence of readable, parseable files contributes to the maps
AnalyzeFiles(acc, paths) ==
  IF paths = <<>> THEN acc
  ELSE LET t == TreeOf(fs.files[Head(paths)].tree)
       IN  AnalyzeFiles(ExtractDefs(acc, Head(paths), t, walk(t, 1)), Tail(paths))

EmptyAcc == [functions |-> EmptyDict, calls_map |-> EmptyDict, call_sites |-> EmptyDict]

(***************************************************************************)
(* C1: after analyze_folder finishes, called_by_sites is exactly the       *)
(* inversion of call_sites: every site of every caller has its matching    *)
(* entry under its callee, every entry of called_by_sites occurs as often  *)
(* as there are sites producing it, and the two maps have the same total   *)
(* number of entries.                                                       *)
(***************************************************************************)
InverseEntry(c, s) == [caller |-> c, file |-> s.file, line |-> s.line, col |-> s.col]

C1_InverseIndexConsistent ==
  Analyzed =>
    LET cs  == result.call_sites
        cbs == result.called_by_sites
    IN  /\ \A pos \in Positions(cs) :
             LET s == cs.at[pos[1]][pos[2]]
             IN  /\ s.callee \in DOMAIN cbs.at
                 /\ Count(cbs.at[s.callee], InverseEntry(pos[1], s)) >= 1
        /\ \A pos \in Positions(cbs) :
             LET e == cbs.at[pos[1]][pos[2]]
             IN  Count(cbs.at[pos[1]], e)
                   = Cardinality({ q \in Positions(cs) :
                                     /\ cs.at[q[1]][q[2]].callee = pos[1]
                                     /\ InverseEntry(q[1], cs.at[q[1]][q[2]]) = e })
        /\ Cardinality(Positions(cs)) = Cardinality(Positions(cbs))
        /\ { k \in DOMAIN cbs.at : TRUE } = { cbs.keys[i] : i \in 1..Len(cbs.keys) }

\* a finished analysis with several callers and a callee called more than once
C1_Witness ==
  /\ Analyzed
  /\ Len(result.call_sites.keys) >= 2
  /\ \E x \in DOMAIN result.called_by_sites.at : Len(result.called_by_sites.at[x]) >= 2
  /\ Len(result.called_by_sites.keys) >= 2

(***************************************************************************)
(* C2: a file whose reading or parsing fails gets exactly one entry in     *)
(* errors and contributes nothing to the maps, and the loop goes on; with  *)
(* exactly one failing file among the candidates the maps are those of the *)
(* other files, errors has one entry and num_files_with_errors is 1.       *)
(***************************************************************************)
C2_FailureIsolation ==
  Analyzed =>
    /\ \A p \in BadFiles :
         /\ Cardinality({ i \in 1..Len(result.errors) : result.errors[i].file = p }) = 1
         /\ \A pos \in Positions(result.functions) :
              result.functions.at[pos[1]][pos[2]].file # p
         /\ \A pos \in Positions(result.call_sites) :
              result.call_sites.at[pos[1]][pos[2]].file # p
         /\ \A pos \in Positions(result.called_by_sites) :
              result.called_by_sites.at[pos[1]][pos[2]].file # p
    /\ Cardinality(BadFiles) = 1 =>
         LET good == AnalyzeFiles(EmptyAcc, GoodPaths)
         IN  /\ result.functions = good.functions
             /\ result.calls = good.calls_map
             /\ result.call_sites = good.call_sites
             /\ result.called_by_sites = Invert(good.call_sites)
             /\ Len(result.errors) = 1
             /\ result.stats.num_files_with_errors = 1

\* three candidate files, the middle one fails, the last one is indexed
C2_Witness ==
  /\ Analyzed
  /\ Len(Candidates) = 3
  /\ BadFiles = { Candidates[2] }
  /\ \E pos \in Positions(result.functions) :
       result.functions.at[pos[1]][pos[2]].file = Candidates[3]

(***************************************************************************)
(* C3: with a root that is a directory, no failure while one file is read, *)
(* parsed or walked aborts the run: a process that was not ended from      *)
(* outside has gone through every candidate file and exits after writing   *)
(* the document.                                                            *)
(***************************************************************************)
C3_NoPerFileFailureAborts ==
  (pc = "exited" /\ fs.kind = "dir" /\ exitCode # Killed) =>
    /\ exitCode = 0
    /\ reads = Candidates
    /\ outFile = OnDisk(result, MaxChunks)

(***************************************************************************)
(* C4: when the root is missing or is not a directory the run ends with a  *)
(* non-zero status before a file is enumerated, read or parsed, and the    *)
(* output path is left as it was.                                           *)
(***************************************************************************)
C4_BadRootIsFatal ==
  (fs.kind # "dir" /\ pc # "main") =>
    /\ pc = "exited"
    /\ exitCode \notin {0, NoExit}
    /\ todo = <<>> /\ reads = <<>> /\ path = <<>> /\ code = "" /\ tree = ""
    /\ result = NoDoc
    /\ outFile = outBefore

\* the root names a regular file and an older document is at the output path
C4_Witness ==
  /\ pc = "exited"
  /\ fs.kind = "file" /\ Len(argv) >= 1
  /\ outFile.exists

(***************************************************************************)
(* C5: a reader of the output path never sees a partially written index:   *)
(* whatever it reads is no file at all or a complete document.             *)
(***************************************************************************)
C5_ReaderSeesWholeDocument ==
  observed # NotRead => (~observed.exists \/ observed.upto = MaxChunks)

(***************************************************************************)
(* C6: the output path is not touched while the index is built: up to the  *)
(* write it holds what it held when the run started, a step taken before   *)
(* the write (an interruption included) leaves it alone, and it changes    *)
(* only once every candidate file has been processed and the result with   *)
(* its inverse index and statistics exists.                                 *)
(***************************************************************************)
Building == {"main", "analyze", "loop", "parse", "extract", "result", "write"}

C6_WriteAfterComplete ==
  [][ /\ pc' \in Building => outFile' = outBefore'
      /\ (pc \in Building /\ pc' # "writing") => outFile' = outFile
      /\ outFile' # outFile =>
           /\ todo = <<>>
           /\ \A p \in CandidateSet : \E i \in 1..Len(reads) : reads[i] = p
           /\ result = MakeResult(folder, functions, calls_map, call_sites,
                                  called_by_sites, file_errors)
           /\ called_by_sites = Invert(call_sites) ]_vars

\* a run interrupted after two files, the older document still in place
C6_Witness ==
  /\ pc = "exited" /\ exitCode = Killed
  /\ Len(reads) >= 2
  /\ result = NoDoc
  /\ outFile.exists /\ outFile = outBefore

(***************************************************************************)
(* The definitions and calls of the source tree, read off the node tables. *)
(* The nodes of a table are numbered in preorder, so a smaller number is   *)
(* an earlier discovery.                                                    *)
(***************************************************************************)
RECURSIVE Desc(_, _)
\* a node and everything below it
Desc(t, n) ==
  {n} \cup UNION { Desc(t, t[n].kids[i]) : i \in 1..Len(t[n].kids) }

Declarators(t, n) ==
  { t[n].kids[i] : i \in { j \in 1..Len(t[n].kids) : t[t[n].kids[j]].field = "declarator" } }

IdentifiersOfDef(t, n) ==
  { m \in UNION { Desc(t, d) : d \in Declarators(t, n) } : t[m].type = "identifier" }

IsDef(t, n) == t[n].type = "function_definition"
IsNamedDef(t, n) == IsDef(t, n) /\ IdentifiersOfDef(t, n) # {}
DefName(t, n) ==
  t[CHOOSE m \in IdentifiersOfDef(t, n) : \A o \in IdentifiersOfDef(t, n) : m <= o].text

IsCallWithCallee(t, c) ==
  /\ t[c].type = "call_expression"
  /\ \E i \in 1..Len(t[c].kids) : t[t[c].kids[i]].field = "function"

\* per tree: its named definitions, their names, the calls below each
NamedDefsOf == [tn \in TreeNames |->
                 { n \in 1..Len(TreeOf(tn)) : IsNamedDef(TreeOf(tn), n) }]
DefNameOf == [tn \in TreeNames |->
               [n \in NamedDefsOf[tn] |-> DefName(TreeOf(tn), n)]]
CallsOf == [tn \in TreeNames |->
             [n \in NamedDefsOf[tn] |->
               { c \in Desc(TreeOf(tn), n) : IsCallWithCallee(TreeOf(tn), c) }]]
\* per tree: whether it holds a definition without a name and a call without a callee
HasUnnameable == [tn \in TreeNames |->
                   /\ \E n \in 1..Len(TreeOf(tn)) : IsDef(TreeOf(tn), n) /\ ~IsNamedDef(TreeOf(tn), n)
                   /\ \E c \in 1..Len(TreeOf(tn)) :
                        TreeOf(tn)[c].type = "call_expression" /\ ~IsCallWithCallee(TreeOf(tn), c)]

\* the trees of the successfully parsed files gp, in processing order
TreesOf(gp) == [i \in 1..Len(gp) |-> fs.files[gp[i]].tree]

\* (file, node) of every named definition of the files with trees ts
NamedDefs(ts) == UNION { {i} \X NamedDefsOf[ts[i]] : i \in 1..Len(ts) }

\* number of calls with a callee below the named definitions
RECURSIVE SumCalls(_, _)
SumCalls(ts, defs) ==
  IF defs = {} THEN 0
  ELSE LET d == CHOOSE x \in defs : TRUE
       IN  Cardinality(CallsOf[ts[d[1]]][d[2]]) + SumCalls(ts, defs \ {d})

Earlier(d, e) == d[1] < e[1] \/ (d[1] = e[1] /\ d[2] < e[2])

DefEntry(gp, ts, d) ==
  [file |-> gp[d[1]],
   start_line |-> TreeOf(ts[d[1]])[d[2]].row + 1,
   end_line |-> TreeOf(ts[d[1]])[d[2]].erow + 1]

(***************************************************************************)
(* C7: functions is multi-valued and never deduplicated: functions[name]   *)
(* holds one entry for every named definition node of that name in the     *)
(* successfully parsed files, in discovery order, and recording a          *)
(* definition never overwrites or removes an earlier entry.                *)
(***************************************************************************)
FunctionsAsDiscovered(fns, gp) ==
  LET ts   == TreesOf(gp)
      defs == NamedDefs(ts)
      named(name) == { d \in defs : DefNameOf[ts[d[1]]][d[2]] = name }
  IN  /\ DOMAIN fns.at = { DefNameOf[ts[d[1]]][d[2]] : d \in defs }
      /\ \A name \in DOMAIN fns.at :
           /\ Len(fns.at[name]) = Cardinality(named(name))
           /\ \A d \in named(name) :
                fns.at[name][1 + Cardinality({ e \in named(name) : Earlier(e, d) })]
                  = DefEntry(gp, ts, d)

C7_FunctionsMultiValued ==
  [][ /\ pc' # "main" =>
           \A name \in DOMAIN functions.at :
             /\ name \in DOMAIN functions'.at
             /\ Len(functions'.at[name]) >= Len(functions.at[name])
             /\ SubSeq(functions'.at[name], 1, Len(functions.at[name])) = functions.at[name]
      /\ (result' # NoDoc /\ result' # result) =>
           FunctionsAsDiscovered(result'.functions, GoodPaths) ]_vars

\* helper is defined once in one file and twice in another
C7_Witness ==
  /\ Analyzed
  /\ "helper" \in DOMAIN result.functions.at
  /\ Len(result.functions.at["helper"]) = 3
  /\ result.functions.at["helper"][1].file # result.functions.at["helper"][2].file
  /\ result.functions.at["helper"][2].file = result.functions.at["helper"][3].file

(***************************************************************************)
(* C8: a file below the root that lies, at any depth, under a directory    *)
(* whose name is in ignore_dirs or starts with "." is never yielded, never *)
(* read and has no entry in functions, call_sites, called_by_sites or      *)
(* errors, whatever its extension.  (The root itself is walked whatever    *)
(* its own name is.)                                                        *)
(***************************************************************************)
UnderIgnoredDir(p) ==
  \E j \in (Len(fs.root) + 1)..(Len(p) - 1) : p[j] \in ignore_dirs \/ p[j][1] = "."

NoEntryOf(d, p) == \A pos \in Positions(d) : d.at[pos[1]][pos[2]].file # p

C8_IgnoredDirsContributeNothing ==
  \A p \in DOMAIN fs.files :
    UnderIgnoredDir(p) =>
      /\ \A i \in 1..Len(todo) : todo[i] # p
      /\ \A i \in 1..Len(reads) : reads[i] # p
      /\ path # p
      /\ NoEntryOf(functions, p) /\ NoEntryOf(call_sites, p)
      /\ NoEntryOf(called_by_sites, p)
      /\ \A i \in 1..Len(file_errors) : file_errors[i].file # p
      /\ Analyzed =>
           /\ NoEntryOf(result.functions, p) /\ NoEntryOf(result.call_sites, p)
           /\ NoEntryOf(result.called_by_sites, p)
           /\ \A i \in 1..Len(result.errors) : result.errors[i].file # p

\* a completed run over three files, in a root whose own name is in
\* ignore_dirs, beside readable .c files in ignored and hidden directories
C8_Witness ==
  /\ Completed
  /\ Len(reads) = 3
  /\ fs.root[Len(fs.root)] \in ignore_dirs
  /\ \E p \in DOMAIN fs.files :
       /\ UnderIgnoredDir(p) /\ p[Len(p) - 1][1] = "." /\ p[Len(p) - 1] \notin ignore_dirs
       /\ endswith(p[Len(p)], <<".", "c">>) /\ fs.files[p].readable /\ fs.files[p].parses

(***************************************************************************)
(* C9: indexing the unchanged tree again, in the same walk order, gives    *)
(* the same result and the same document: a run starts from empty          *)
(* accumulators and owes nothing to the run before it.                      *)
(***************************************************************************)
C9_RerunYieldsSameDocument ==
  /\ (run >= 2 /\ Analyzed) => result = prevResult
  /\ (run >= 2 /\ Completed) => outFile = OnDisk(prevResult, MaxChunks)

\* the second run is complete, with calls and a failed file in its document
C9_Witness ==
  /\ run = 2 /\ Completed
  /\ result.stats.num_call_sites >= 2
  /\ result.stats.num_functions >= 3
  /\ Len(result.errors) >= 1

(***************************************************************************)
(* C10: a function definition without a declarator or without an           *)
(* identifier in its declarator, and a call expression without a function  *)
(* child, are dropped silently: the maps hold exactly the named            *)
(* definitions and the calls with a callee found below them, nothing is    *)
(* filed under another name, errors counts only the files that failed to   *)
(* load, and the nodes that follow in the same file are still extracted.   *)
(***************************************************************************)
C10_UnnameableDroppedSilently ==
  Analyzed =>
    LET ts   == TreesOf(GoodPaths)
        defs == NamedDefs(ts)
        nc   == SumCalls(ts, defs)
        bad  == Cardinality(BadFiles)
    IN  /\ Cardinality(Positions(result.functions)) = Cardinality(defs)
        /\ Cardinality(Positions(result.call_sites)) = nc
        /\ Cardinality(Positions(result.calls)) = nc
        /\ DOMAIN result.functions.at = { DefNameOf[ts[d[1]]][d[2]] : d \in defs }
        /\ DOMAIN result.calls.at \subseteq DOMAIN result.functions.at
        /\ DOMAIN result.call_sites.at \subseteq DOMAIN result.functions.at
        /\ Len(result.errors) = bad
        /\ result.stats.num_files_with_errors = bad

\* a file with two unnameable definitions and a call without a callee was
\* indexed; the function after them is recorded with its two other calls
C10_Witness ==
  /\ Analyzed
  /\ \E i \in 1..Len(GoodPaths) : HasUnnameable[fs.files[GoodPaths[i]].tree]
  /\ "rec" \in DOMAIN result.call_sites.at
  /\ Len(result.call_sites.at["rec"]) = 2
  /\ result.errors = <<>>

(***************************************************************************)
(* C11: calls and call_sites are built in lock-step: at every moment the   *)
(* two maps have the same callers in the same order, the two lists of a    *)
(* caller have the same length and the i-th name of calls[caller] is the   *)
(* callee of the i-th site of call_sites[caller]; a callee called twice    *)
(* appears twice.                                                           *)
(***************************************************************************)
LockStep(cm, cs) ==
  /\ cm.keys = cs.keys
  /\ DOMAIN cm.at = DOMAIN cs.at
  /\ \A c \in DOMAIN cm.at :
       /\ Len(cm.at[c]) = Len(cs.at[c])
       /\ \A i \in 1..Len(cm.at[c]) : cm.at[c][i] = cs.at[c][i].callee

C11_CallsLockStep ==
  /\ LockStep(calls_map, call_sites)
  /\ Analyzed => LockStep(result.calls, result.call_sites)

\* the scenario of the spec: main calls helper twice
C11_Witness ==
  /\ Analyzed
  /\ "main" \in DOMAIN result.calls.at
  /\ result.calls.at["main"] = <<"helper", "helper">>
  /\ Len(result.call_sites.at["main"]) = 2
  /\ result.call_sites.at["main"][1] # result.call_sites.at["main"][2]

(***************************************************************************)
(* C12: the inverse index keeps the order of call_sites: in                *)
(* called_by_sites[x] the entries of a caller inserted earlier into        *)
(* call_sites come before those of a caller inserted later, and the        *)
(* entries of one caller are its sites with callee x in their call_sites   *)
(* order.                                                                   *)
(***************************************************************************)
KeyIndex(d, k) == CHOOSE i \in 1..Len(d.keys) : d.keys[i] = k

C12_InverseKeepsOrder ==
  Analyzed =>
    LET cs  == result.call_sites
        cbs == result.called_by_sites
    IN  \A x \in DOMAIN cbs.at :
          /\ \A i, j \in 1..Len(cbs.at[x]) :
               i < j => KeyIndex(cs, cbs.at[x][i].caller) <= KeyIndex(cs, cbs.at[x][j].caller)
          /\ \A c \in DOMAIN cs.at :
               LET mine  == SelectSeq(cbs.at[x], LAMBDA e : e.caller = c)
                   sites == SelectSeq(cs.at[c], LAMBDA s : s.callee = x)
               IN  /\ Len(mine) = Len(sites)
                   /\ \A i \in 1..Len(mine) : mine[i] = InverseEntry(c, sites[i])

\* a callee with entries of two callers, and one with two entries of one caller
C12_Witness ==
  /\ Analyzed
  /\ \E x \in DOMAIN result.called_by_sites.at :
       \E i, j \in 1..Len(result.called_by_sites.at[x]) :
         result.called_by_sites.at[x][i].caller # result.called_by_sites.at[x][j].caller
  /\ \E x \in DOMAIN result.called_by_sites.at :
       \E i, j \in 1..Len(result.called_by_sites.at[x]) :
         /\ i < j
         /\ result.called_by_sites.at[x][i].caller = result.called_by_sites.at[x][j].caller
         /\ result.called_by_sites.at[x][i] # result.called_by_sites.at[x][j]

(***************************************************************************)
(* C13: the statistics are projections of the final maps: the number of    *)
(* definition entries, the number of function names, the number of callers *)
(* (each with at least one call), the number of call sites (which is also  *)
(* the number of entries of calls and of called_by_sites) and the length   *)
(* of errors.                                                               *)
(***************************************************************************)
C13_StatsAreProjections ==
  Analyzed =>
    /\ result.stats.num_functions = Cardinality(Positions(result.functions))
    /\ result.stats.num_unique_function_names = Cardinality(DOMAIN result.functions.at)
    /\ result.stats.num_callers
         = Cardinality({ c \in DOMAIN result.calls.at : Len(result.calls.at[c]) >= 1 })
    /\ result.stats.num_callers = Cardinality(DOMAIN result.calls.at)
    /\ result.stats.num_call_sites = Cardinality(Positions(result.call_sites))
    /\ result.stats.num_call_sites = Cardinality(Positions(result.calls))
    /\ result.stats.num_call_sites = Cardinality(Positions(result.called_by_sites))
    /\ result.stats.num_files_with_errors = Len(result.errors)

\* more definitions than names, a function without calls, calls, a failed file
C13_Witness ==
  /\ Analyzed
  /\ result.stats.num_functions > result.stats.num_unique_function_names
  /\ result.stats.num_unique_function_names > result.stats.num_callers
  /\ result.stats.num_call_sites >= 3
  /\ result.stats.num_files_with_errors >= 1

(***************************************************************************)
(* C14: every call expression with a callee below a named definition, at   *)
(* any depth, is recorded as a call of that function, as often as it lies  *)
(* below a definition of that name: a call inside another call's arguments *)
(* and a call of the function to itself included, the latter then listed   *)
(* under the same name in called_by_sites.                                  *)
(***************************************************************************)
\* per tree: the callee node of every call expression that has one
CalleeNodeOf ==
  [tn \in TreeNames |->
    [c \in { m \in 1..Len(TreeOf(tn)) : IsCallWithCallee(TreeOf(tn), m) } |->
      LET ks == TreeOf(tn)[c].kids
          is == { i \in 1..Len(ks) : TreeOf(tn)[ks[i]].field = "function" }
      IN  ks[CHOOSE i \in is : \A j \in is : i <= j]]]

\* (definition, call) for every call with a callee below a named definition
CallPairs(ts) ==
  UNION { {d} \X CallsOf[ts[d[1]]][d[2]] : d \in NamedDefs(ts) }

CallerOfPair(ts, q) == DefNameOf[ts[q[1][1]]][q[1][2]]

SiteOfPair(gp, ts, q) ==
  LET t == TreeOf(ts[q[1][1]])
      f == CalleeNodeOf[ts[q[1][1]]][q[2]]
  IN  [callee |-> t[f].text, file |-> gp[q[1][1]],
       line |-> t[f].row + 1, col |-> t[f].col + 1]

C14_EveryNestedCallRecorded ==
  Analyzed =>
    LET gp    == GoodPaths
        ts    == TreesOf(gp)
        pairs == CallPairs(ts)
        cs    == result.call_sites
        cbs   == result.called_by_sites
    IN  \A q \in pairs :
          LET name == CallerOfPair(ts, q)
              site == SiteOfPair(gp, ts, q)
          IN  /\ name \in DOMAIN cs.at
              /\ Count(cs.at[name], site)
                   = Cardinality({ r \in pairs : /\ CallerOfPair(ts, r) = name
                                                 /\ SiteOfPair(gp, ts, r) = site })
              /\ site.callee = name =>
                   /\ name \in DOMAIN cbs.at
                   /\ Count(cbs.at[name], InverseEntry(name, site)) >= 1

\* g(h()) inside helper, rec calling itself, k() below both outer and inner
C14_Witness ==
  /\ Analyzed
  /\ "helper" \in DOMAIN result.calls.at /\ result.calls.at["helper"] = <<"g", "h">>
  /\ "rec" \in DOMAIN result.called_by_sites.at
  /\ \E i \in 1..Len(result.call_sites.at["rec"]) : result.call_sites.at["rec"][i].callee = "rec"
  /\ "outer" \in DOMAIN result.calls.at /\ "inner" \in DOMAIN result.calls.at
  /\ result.calls.at["outer"] = <<"k", "inner">> /\ result.calls.at["inner"] = <<"k">>

(***************************************************************************)
(* C15: recorded positions are 1-based, the tree's 0-based rows and        *)
(* columns plus one: a definition has 1 <= start_line <= end_line, taken   *)
(* from the row span of a definition node of its file; a call site has     *)
(* line >= 1 and col >= 1, taken from the start point of the callee node   *)
(* of a call of its file.                                                   *)
(***************************************************************************)
PositionsOneBased(fns, cs, cbs) ==
  /\ \A pos \in Positions(fns) :
       LET e == fns.at[pos[1]][pos[2]]
           t == TreeOf(fs.files[e.file].tree)
       IN  /\ e.start_line >= 1 /\ e.start_line <= e.end_line
           /\ \E n \in 1..Len(t) : /\ IsDef(t, n)
                                   /\ e.start_line = t[n].row + 1
                                   /\ e.end_line = t[n].erow + 1
  /\ \A pos \in Positions(cs) :
       LET s  == cs.at[pos[1]][pos[2]]
           tn == fs.files[s.file].tree
           t  == TreeOf(tn)
       IN  /\ s.line >= 1 /\ s.col >= 1
           /\ \E c \in DOMAIN CalleeNodeOf[tn] :
                /\ t[CalleeNodeOf[tn][c]].text = s.callee
                /\ s.line = t[CalleeNodeOf[tn][c]].row + 1
                /\ s.col = t[CalleeNodeOf[tn][c]].col + 1
  /\ \A pos \in Positions(cbs) :
       cbs.at[pos[1]][pos[2]].line >= 1 /\ cbs.at[pos[1]][pos[2]].col >= 1

C15_PositionsOneBased ==
  /\ PositionsOneBased(functions, call_sites, called_by_sites)
  /\ Analyzed => PositionsOneBased(result.functions, result.call_sites,
                                   result.called_by_sites)

\* a definition on the first row, one spanning two lines, a call on the first row
C15_Witness ==
  /\ Analyzed
  /\ \E pos \in Positions(result.functions) :
       result.functions.at[pos[1]][pos[2]].start_line = 1
  /\ \E pos \in Positions(result.functions) :
       result.functions.at[pos[1]][pos[2]].end_line
         > result.functions.at[pos[1]][pos[2]].start_line
  /\ \E pos \in Positions(result.call_sites) :
       result.call_sites.at[pos[1]][pos[2]].line = 1

(***************************************************************************)
(* C17: the content of the final maps does not depend on the order in      *)
(* which the candidate files are processed: for every order of the same    *)
(* files, functions, calls, call_sites, called_by_sites and errors have    *)
(* the same keys and, per key, the same entries with the same              *)
(* multiplicity, and the statistics are equal.                              *)
(***************************************************************************)
\* the orders of a sequence
Orders(seq) ==
  { [i \in 1..Len(seq) |-> seq[p[i]]] :
      p \in { q \in [1..Len(seq) -> 1..Len(seq)] :
                \A i, j \in 1..Len(seq) : q[i] = q[j] => i = j } }

ErrorOf(p) ==
  [file |-> p, error |-> IF ~fs.files[p].readable THEN "read failed" ELSE "parse failed"]

\* the document of a run that takes the candidate files in the order paths
DocumentInOrder(paths) ==
  LET bad  == SelectSeq(paths, FailsToLoad)
      good == AnalyzeFiles(EmptyAcc, SelectSeq(paths, LAMBDA p : ~FailsToLoad(p)))
  IN  MakeResult(fs.root, good.functions, good.calls_map, good.call_sites,
                 Invert(good.call_sites), [i \in 1..Len(bad) |-> ErrorOf(bad[i])])

SameBag(s, t) ==
  /\ Len(s) = Len(t)
  /\ \A i \in 1..Len(s) : Count(s, s[i]) = Count(t, s[i])

SameMap(d, e) ==
  /\ DOMAIN d.at = DOMAIN e.at
  /\ \A k \in DOMAIN d.at : SameBag(d.at[k], e.at[k])

SameContent(r, s) ==
  /\ SameMap(r.functions, s.functions)
  /\ SameMap(r.calls, s.calls)
  /\ SameMap(r.call_sites, s.call_sites)
  /\ SameMap(r.called_by_sites, s.called_by_sites)
  /\ SameBag(r.errors, s.errors)
  /\ r.stats = s.stats

C17_OrderIndependentContent ==
  [][ (result' # NoDoc /\ result' # result) =>
        /\ result' = DocumentInOrder(Candidates)
        /\ \A order \in Orders(Candidates) :
             SameContent(DocumentInOrder(order), result') ]_vars

\* three candidate files, one of them failing, a name defined in two files
C17_Witness ==
  /\ Analyzed
  /\ Len(Candidates) = 3 /\ Len(result.errors) = 1
  /\ \E name \in DOMAIN result.functions.at :
       \E i, j \in 1..Len(result.functions.at[name]) :
         result.functions.at[name][i].file # result.functions.at[name][j].file
  /\ \E order \in Orders(Candidates) :
       DocumentInOrder(order).functions # result.functions

(***************************************************************************)
(* Vocabulary of the consumers' properties.                                 *)
(***************************************************************************)
\* a command was read in this step and ended in the Navigator call named
NavCalled(call) == nav_steps' # nav_steps /\ nav_out'.call = call

\* what the console prints when a lookup finds nothing
NoDataMessages ==
  { "No definition locations found", "No callees.", "No call sites for this function.",
    "No callers found for:", "No definitions found" }

\* the call just made found nothing, raised nothing and moved nothing
NoData ==
  /\ nav_out'.ret = <<>>
  /\ nav_out'.printed \in NoDataMessages
  /\ nav_pc' = "loop"
  /\ UNCHANGED <<history, current, future, bookmarks>>

\* the Navigator's lookups and the map of the document each of them reads
Lookups == { "open_definition", "jump_to_definition_of_symbol", "list_callees",
             "jump_callsite", "who_calls_symbol_menu" }

LookupMap(call) ==
  CASE call \in {"open_definition", "jump_to_definition_of_symbol"} -> data.functions
    [] call = "list_callees"          -> data.calls
    [] call = "jump_callsite"         -> data.call_sites
    [] call = "who_calls_symbol_menu" -> data.called_by_sites

\* the names the document on disk has call sites for, in either direction
SiteKeys == DOMAIN outFile.doc.call_sites.at \cup DOMAIN outFile.doc.called_by_sites.at

\* the relative paths of the files the document has definitions in
OutlineKeys ==
  { relpath(outFile.doc.root, e.val.file) : e \in Entries(outFile.doc.functions) }

(***************************************************************************)
(* C16: in both consumers a lookup of a name that is absent from the       *)
(* loaded document is "no data" and never an error.  In the Navigator,     *)
(* open_definition, list_callees, jump_callsite, who_calls_symbol_menu and *)
(* jump_to_definition_of_symbol with a key that is not, letter for letter  *)
(* and case for case, a key of the map they read return nothing or print   *)
(* their message, end normally and leave history, current and future as    *)
(* they were, and a key that is in the map is never answered that way.     *)
(* In the WorkspaceBackend, one_hop returns empty callers, callees and     *)
(* callsites for such a name and list_outline an empty list for such a     *)
(* file, and the backend stays ready.                                       *)
(***************************************************************************)
C16_NavigatorAbsentIsNoData ==
  \A call \in Lookups :
    NavCalled(call) =>
      IF nav_out'.arg \notin DOMAIN LookupMap(call).at
      THEN NoData
      ELSE nav_out'.printed \notin NoDataMessages

C16_BackendAbsentIsNoData ==
  /\ gui_out.call = "one_hop" =>
       /\ gui_pc = "ready"
       /\ gui_out.ret.center = gui_out.arg
       /\ (gui_out.arg \in DOMAIN outFile.doc.called_by_sites.at) = (gui_out.ret.callers # <<>>)
       /\ (gui_out.arg \in DOMAIN outFile.doc.calls.at) = (gui_out.ret.callees # <<>>)
       /\ (gui_out.arg \in SiteKeys) = (gui_out.ret.callsites # <<>>)
  /\ gui_out.call = "list_outline" =>
       /\ gui_pc = "ready"
       /\ (gui_out.arg \in OutlineKeys) = (gui_out.ret # <<>>)

C16_AbsentKeyIsNoData ==
  /\ [][C16_NavigatorAbsentIsNoData]_vars
  /\ [](C16_BackendAbsentIsNoData)

\* after a function was selected, a definition is asked for under a name
\* that differs from a key of the document only in case
C16_Witness ==
  /\ nav_out.call = "open_definition" /\ nav_out.arg = "Helper"
  /\ "helper" \in DOMAIN data.functions.at
  /\ nav_out.printed = "No definition locations found"
  /\ current # NoView /\ nav_pc = "loop"

(***************************************************************************)
(* C18: back and forward are mutually inverse moves over (history,         *)
(* current, future).  back with a non-empty history pushes current onto    *)
(* future and makes the last history entry current; forward with a         *)
(* non-empty future pushes current onto history and makes the last future  *)
(* entry current; the state either leaves is the one from which the other  *)
(* leads back to exactly the history, current and future before; back on   *)
(* an empty history and forward on an empty future change nothing.          *)
(***************************************************************************)
Front(seq) == SubSeq(seq, 1, Len(seq) - 1)

C18_BackForwardInverse ==
  [][ /\ NavCalled("back") =>
           IF history = <<>>
           THEN UNCHANGED <<history, current, future>>
           ELSE /\ future' = Append(future, current)
                /\ current' = history[Len(history)]
                /\ history' = Front(history)
                \* forward from here restores the state before
                /\ future' # <<>>
                /\ Append(history', current') = history
                /\ future'[Len(future')] = current
                /\ Front(future') = future
      /\ NavCalled("forward") =>
           IF future = <<>>
           THEN UNCHANGED <<history, current, future>>
           ELSE /\ history' = Append(history, current)
                /\ current' = future[Len(future)]
                /\ future' = Front(future)
                \* back from here restores the state before
                /\ history' # <<>>
                /\ Append(future', current') = future
                /\ history'[Len(history')] = current
                /\ Front(history') = history ]_vars

\* forward has just undone a back in a session with a long history
C18_Witness ==
  /\ nav_out.call = "forward" /\ nav_out.printed = ""
  /\ nav_steps = 2
  /\ Len(history) = LongSession /\ future = <<>>
  /\ current = FunctionViewOf(data, data.functions.keys[1])

(***************************************************************************)
(* C19: showing a new view while a view is current appends that view to    *)
(* history and empties future, also when the new view equals the current   *)
(* one; the first view shown leaves history empty.  Nothing but showing a  *)
(* view, back and forward changes the current view.                         *)
(***************************************************************************)
\* a view was shown in this step
Shown ==
  /\ nav_steps' # nav_steps
  /\ nav_out'.call = "set_current_function" \/ nav_out'.printed = "snippet"

C19_PushExtendsHistory ==
  [][ /\ Shown =>
           IF current # NoView
           THEN history' = Append(history, current) /\ future' = <<>>
           ELSE history = <<>> /\ history' = <<>> /\ future' = future
      /\ Shown => current' # NoView
      /\ <<history, current, future>>' # <<history, current, future>> =>
           Shown \/ NavCalled("back") \/ NavCalled("forward") ]_vars

\* the current function was selected again: it is now also the last entry
\* of history
C19_Witness ==
  /\ nav_out.call = "set_current_function"
  /\ history # <<>> /\ history[Len(history)] = current
  /\ future = <<>>

(***************************************************************************)
(* C20: save_session writes current, the last 200 entries of history and   *)
(* the last 200 entries of bookmarks, nothing of future, and leaves        *)
(* history, future, bookmarks and current in memory as they were; mark     *)
(* appends the current view to bookmarks when there is one and does        *)
(* nothing otherwise; no command removes or changes a bookmark.             *)
(***************************************************************************)
\* saved is the last entries of seq, all of them up to 200
IsRecent(saved, seq) ==
  /\ Len(saved) = IF Len(seq) < 200 THEN Len(seq) ELSE 200
  /\ \A i \in 1..Len(saved) : saved[i] = seq[Len(seq) - Len(saved) + i]

C20_SaveAndMarkFrame ==
  [][ /\ NavCalled("save_session") =>
           /\ session'.exists
           /\ session'.current = current
           /\ IsRecent(session'.history, history)
           /\ IsRecent(session'.bookmarks, bookmarks)
           /\ "future" \notin DOMAIN session'
           /\ UNCHANGED <<history, future, bookmarks, current>>
      /\ NavCalled("mark") =>
           /\ bookmarks' = IF current # NoView THEN Append(bookmarks, current)
                           ELSE bookmarks
           /\ UNCHANGED <<history, future, current>>
      /\ ~NavCalled("mark") => bookmarks' = bookmarks
      /\ ~NavCalled("save_session") => session' = session
      /\ Len(bookmarks') >= Len(bookmarks)
      /\ SubSeq(bookmarks', 1, Len(bookmarks)) = bookmarks ]_vars

\* a session with more than 200 history entries and more than 200
\* bookmarks was saved
C20_Witness ==
  /\ nav_out.call = "save_session"
  /\ Len(history) > 200 /\ Len(bookmarks) > Len(history)
  /\ Len(session.history) = 200 /\ Len(session.bookmarks) = 200
  /\ session.bookmarks[200] = bookmarks[Len(bookmarks)]
  /\ session.history[1] = history[Len(history) - 199]

(***************************************************************************)
(* C26: in the document analyze_folder returns, calls and call_sites have  *)
(* the same keys, every one of them is a key of functions, every caller    *)
(* named in called_by_sites is a key of functions, and no list of          *)
(* functions, calls, call_sites or called_by_sites is empty; a function    *)
(* without a recorded call has no key in calls or call_sites.  The keys of *)
(* called_by_sites are the callee texts and need not be keys of functions. *)
(***************************************************************************)
NoEmptyList(d) == \A k \in DOMAIN d.at : d.at[k] # <<>>

KeysAreDomain(d) == Range(d.keys) = DOMAIN d.at

C26_CallersAreDefinedNoEmptyLists ==
  Analyzed =>
    /\ DOMAIN result.calls.at = DOMAIN result.call_sites.at
    /\ DOMAIN result.calls.at \subseteq DOMAIN result.functions.at
    /\ \A pos \in Positions(result.called_by_sites) :
         result.called_by_sites.at[pos[1]][pos[2]].caller \in DOMAIN result.functions.at
    /\ NoEmptyList(result.functions) /\ KeysAreDomain(result.functions)
    /\ NoEmptyList(result.calls) /\ KeysAreDomain(result.calls)
    /\ NoEmptyList(result.call_sites) /\ KeysAreDomain(result.call_sites)
    /\ NoEmptyList(result.called_by_sites) /\ KeysAreDomain(result.called_by_sites)

\* a document with a function that calls nothing, a function that calls,
\* and a callee that is defined nowhere
C26_Witness ==
  /\ Analyzed
  /\ DOMAIN result.calls.at # {}
  /\ DOMAIN result.functions.at \ DOMAIN result.calls.at # {}
  /\ DOMAIN result.called_by_sites.at \ DOMAIN result.functions.at # {}


(***************************************************************************)
(* The GUI's history and workspace.                                         *)
(***************************************************************************)
\* the symbols a navigation may name: every name of the documents and more
NavSymbols == Range(Collation)

\* the presenter's history: what Back leads to, where it is, what Forward leads to
Nav(s) == <<s.back_stack, s.current_symbol, s.forward_stack>>

\* the view event just handled called navigate_to(symbol, push_history=True)
Navigated ==
  /\ gui_steps' = gui_steps + 1
  /\ gui_event'.handler \in {"on_outline_selected", "on_constellation_node_clicked"}

\* C21: navigate_to(symbol, push_history=True) appends the previous current
\* symbol to back_stack and empties forward_stack exactly when there is a
\* current symbol and it differs from symbol; navigating to the current
\* symbol, or with push_history=False, changes neither stack; in every case
\* current_symbol becomes symbol.  Stated of the call on every reachable state
\* of the presenter, and of every step in which a selection or a click made it.
C21_NavigateToHistoryRule ==
  /\ [](\A symbol \in NavSymbols, push_history \in BOOLEAN :
          LET t      == navigate_to(Gui, symbol, push_history)
              pushes == push_history /\ current_symbol # NoSymbol
                          /\ current_symbol # symbol
          IN  /\ t.current_symbol = symbol
              /\ pushes => Nav(t) = <<Append(back_stack, current_symbol), symbol, <<>> >>
              /\ ~pushes => Nav(t) = <<back_stack, symbol, forward_stack>>)
  /\ [][Navigated =>
          LET symbol == gui_event'.arg
              pushes == current_symbol # NoSymbol /\ current_symbol # symbol
          IN  /\ current_symbol' = symbol
              /\ pushes => /\ back_stack' = Append(back_stack, current_symbol)
                           /\ forward_stack' = <<>>
              /\ ~pushes => UNCHANGED <<back_stack, forward_stack>>]_vars

\* a click on a node other than the centre has pushed the symbol shown before
C21_Witness ==
  /\ gui_event.handler = "on_constellation_node_clicked"
  /\ current_symbol = gui_event.arg
  /\ back_stack # <<>>
  /\ back_stack[Len(back_stack)] # current_symbol
  /\ forward_stack = <<>>

\* seq[-1]
Top(seq) == seq[Len(seq)]

CanGoBack == back_stack # <<>> /\ current_symbol # NoSymbol
CanGoForward == forward_stack # <<>> /\ current_symbol # NoSymbol

\* C22: over (back_stack, current_symbol, forward_stack), on_back moves the
\* top of back_stack to current_symbol and the current symbol onto
\* forward_stack, on_forward does the converse, so each undoes the other;
\* each changes nothing when its stack is empty or there is no current
\* symbol; neither empties the other stack.  Stated of both handlers on every
\* reachable state of the presenter, and of every step that handled Back or
\* Forward.
C22_BackForwardInverse ==
  /\ [](LET s == Gui
        IN  /\ CanGoBack =>
                 /\ Nav(on_back(s)) = <<Front(back_stack), Top(back_stack),
                                        Append(forward_stack, current_symbol)>>
                 /\ Nav(on_forward(on_back(s))) = Nav(s)
            /\ CanGoForward =>
                 /\ Nav(on_forward(s)) = <<Append(back_stack, current_symbol),
                                           Top(forward_stack), Front(forward_stack)>>
                 /\ Nav(on_back(on_forward(s))) = Nav(s)
            /\ ~CanGoBack => on_back(s) = s
            /\ ~CanGoForward => on_forward(s) = s)
  /\ [][/\ (gui_steps' = gui_steps + 1 /\ gui_event'.handler = "on_back") =>
             IF CanGoBack
             THEN /\ back_stack' = Front(back_stack)
                  /\ current_symbol' = Top(back_stack)
                  /\ forward_stack' = Append(forward_stack, current_symbol)
             ELSE UNCHANGED <<backend, _project, index_callsites, script, current_symbol, back_stack,
                              forward_stack, _current_file, _full_outline, view>>
        /\ (gui_steps' = gui_steps + 1 /\ gui_event'.handler = "on_forward") =>
             IF CanGoForward
             THEN /\ forward_stack' = Front(forward_stack)
                  /\ current_symbol' = Top(forward_stack)
                  /\ back_stack' = Append(back_stack, current_symbol)
             ELSE UNCHANGED <<backend, _project, index_callsites, script, current_symbol, back_stack,
                              forward_stack, _current_file, _full_outline, view>>]_vars

\* Back was handled with symbols left on both stacks
C22_Witness ==
  /\ gui_event.handler = "on_back"
  /\ back_stack # <<>>
  /\ forward_stack # <<>>
  /\ current_symbol # NoSymbol

\* on_open_folder has just run and open_project returned
Opened ==
  /\ gui_steps' = gui_steps + 1
  /\ gui_event'.handler = "on_open_folder"
  /\ gui_event'.arg # <<>>
  /\ gui_event'.raised = ""

\* on_open_folder has just run and open_project raised
OpenFailed ==
  /\ gui_steps' = gui_steps + 1
  /\ gui_event'.handler = "on_open_folder"
  /\ gui_event'.raised # ""

\* the keys of a loaded map are the keys of d, with as many entries each
SameShape(m, d) ==
  /\ DOMAIN m = DOMAIN d.at
  /\ \A k \in DOMAIN m : Len(m[k]) = Len(d.at[k])

LoadedDoc == IF _project = NoProject THEN NoDoc ELSE index_callsites.doc

\* the callsite strings of symbol, read off the document d: its call_sites
\* in order as OUT lines, then its called_by_sites in order as IN lines
LinesOf(d, symbol) ==
  IF d = NoDoc THEN <<>>
  ELSE LET outs == IF symbol \in DOMAIN d.call_sites.at
                   THEN d.call_sites.at[symbol] ELSE <<>>
           ins  == IF symbol \in DOMAIN d.called_by_sites.at
                   THEN d.called_by_sites.at[symbol] ELSE <<>>
           rel(file) == IF SubSeq(file, 1, Len(d.root)) = d.root
                        THEN SubSeq(file, Len(d.root) + 1, Len(file)) ELSE file
       IN  [i \in 1..(Len(outs) + Len(ins)) |->
              IF i <= Len(outs)
              THEN <<"OUT  ", rel(outs[i].file), outs[i].line, outs[i].col,
                     " -> ", outs[i].callee>>
              ELSE LET x == ins[i - Len(outs)]
                   IN  <<"IN   ", rel(x.file), x.line, x.col, " <- ", x.caller>>]

\* C24: whatever projects were opened and whatever symbols were looked up
\* before, every cached entry of _callsites and every return value of
\* one_hop(symbol) is the OUT lines of the loaded document's
\* call_sites[symbol] followed by the IN lines of its
\* called_by_sites[symbol]; a second call returns what the first returned;
\* a load leaves no cached entry behind.
C24_OneHopNeverStale ==
  /\ [](LET d == LoadedDoc
        IN  /\ \A symbol \in DOMAIN _callsites : _callsites[symbol] = LinesOf(d, symbol)
            /\ gui_out.call = "one_hop" =>
                 gui_out.ret.callsites = LinesOf(d, gui_out.arg)
            /\ \A symbol \in NavSymbols :
                 LET first  == one_hop(Gui, symbol)
                     second == one_hop(first, symbol)
                 IN  /\ first.gui_out.ret.callsites = LinesOf(d, symbol)
                     /\ second.gui_out.ret = first.gui_out.ret)
  /\ [][Opened => DOMAIN _callsites' \subseteq {current_symbol'}]_vars

\* a symbol was looked up, a project was loaded after that, and one_hop has
\* returned callsite strings since
C24_Witness ==
  /\ back_stack # <<>>
  /\ Top(back_stack) \notin DOMAIN _callsites
  /\ gui_out.call = "one_hop"
  /\ gui_out.ret.callsites # <<>>
  /\ LinesOf(LoadedDoc, Top(back_stack)) # <<>>

\* C25: when open_project raises because the indexer script is missing, the
\* indexer ended with a non-zero status, or no document is at the output
\* path, the project info, the file list, the outline, the callers, the
\* callees, the call-site maps and the cache of the backend are what they
\* were, and the index in the root's .codemap is still there, unchanged.
C25_FailedOpenKeepsState ==
  [][(OpenFailed /\ gui_event'.raised \in {"FileNotFoundError", "RuntimeError"}) =>
       /\ UNCHANGED <<_project, _files, _outline, _callers, _callees,
                      _call_sites_out, _call_sites_in, _callsites>>
       /\ index_callsites' = index_callsites
       /\ LoadedDoc' = LoadedDoc
       /\ fs'.dirs[Append(fs.root, N_codemap)].filenames
            = IF index_callsites.exists THEN <<N_out_json>> ELSE <<>>]_vars

\* the indexer failed on a project that was opened before and has symbols
\* looked up: the loaded maps and the stored index are those of the earlier
\* state of the tree
C25_Witness ==
  /\ gui_event.handler = "on_open_folder"
  /\ gui_event.raised = "RuntimeError"
  /\ Overflows(fs)
  /\ _project # NoProject
  /\ index_callsites.exists
  /\ _files # <<>>
  /\ _callsites # NoMap
=============================================================================
